---- MODULE Spec2Model ----
(***************************************************************************)
(* gitlin: the comment-aggregation and issue-synchronisation pipeline.     *)
(*                                                                         *)
(* The model follows the TypeScript source: Gitlin (index) collects the    *)
(* comments of a pull request, filters them against what the tracker       *)
(* already holds, hands the merged text to the extraction collaborator     *)
(* (AIParser) and creates one tracker issue per extracted item             *)
(* (LinearClient).  Two builds of Gitlin.processComment are in the         *)
(* repository: src/src/index.ts (thread-level check isPRProcessed) and     *)
(* dist/index.js (comment-level check getProcessedCommentIds); the         *)
(* variable build says which one a behaviour runs.                         *)
(*                                                                         *)
(* Text is modelled as text: descriptions, URLs, markers and bodies are    *)
(* strings, built by concatenation and searched by substring.              *)
(***************************************************************************)
EXTENDS Integers, Sequences, FiniteSets, TLC

VARIABLES
  build,          \* "src": src/src/index.ts, "dist": dist/index.js
  issueComments,  \* GitHub: general comments of the PR, <<[id, body]>>
  reviewThreads,  \* GitHub: review threads, <<[isResolved, comments]>>
  tracker,        \* Linear: [issues, labels] of the team
  runs            \* one record per invocation of main/processComment

vars == <<build, issueComments, reviewThreads, tracker, runs>>

(***************************************************************************)
(* Strings                                                                 *)
(***************************************************************************)

\* String.prototype.includes
Includes(s, sub) ==
  \E i \in 1..(Len(s) - Len(sub) + 1) : SubSeq(s, i, i + Len(sub) - 1) = sub

\* Array.prototype.join
RECURSIVE Join(_, _)
Join(parts, sep) ==
  IF Len(parts) = 0 THEN ""
  ELSE IF Len(parts) = 1 THEN parts[1]
  ELSE parts[1] \o sep \o Join(Tail(parts), sep)

Range(f) == {f[x] : x \in DOMAIN f}

Min(a, b) == IF a < b THEN a ELSE b

RECURSIVE Flatten(_)
Flatten(ss) == IF Len(ss) = 0 THEN <<>> ELSE Head(ss) \o Flatten(Tail(ss))

\* Array.prototype.map
Map(s, F(_)) == [k \in 1..Len(s) |-> F(s[k])]

(***************************************************************************)
(* GitHub: what the three retrievals of fetchAllPRComments return          *)
(***************************************************************************)

\* the literal trigger phrase
TriggerPhrase == "/create-issues"

\* reviewThreads(first: 100) and comments(first: 10) of the GraphQL query
ThreadsFirst == 100
CommentsFirst == 10

\* octokit.pulls.listReviewComments: the review comments of every thread
ListReviewComments(threads) == Flatten(Map(threads, LAMBDA th : th.comments))

\* octokit.graphql(query): the first 100 threads, the first 10 comments of each
GraphqlReviewThreads(threads) ==
  [t \in 1..Min(Len(threads), ThreadsFirst) |->
     [isResolved |-> threads[t].isResolved,
      comments |-> Map(SubSeq(threads[t].comments, 1,
                              Min(Len(threads[t].comments), CommentsFirst)),
                       LAMBDA c : [databaseId |-> c.id])]]

(***************************************************************************)
(* Gitlin.fetchAllPRComments                                               *)
(***************************************************************************)

\* resolutionMap: databaseId -> isResolved, a later thread overriding an earlier
ResolutionMap(nodes) ==
  LET ids == UNION {{c.databaseId : c \in Range(nodes[t].comments)} : t \in DOMAIN nodes}
      last(id) == CHOOSE t \in DOMAIN nodes :
                    /\ id \in {c.databaseId : c \in Range(nodes[t].comments)}
                    /\ \A u \in DOMAIN nodes :
                         id \in {c.databaseId : c \in Range(nodes[u].comments)} => u <= t
  IN [id \in {x \in ids : x # 0} |-> nodes[last(id)].isResolved]

\* a faulty variant: a general comment is kept whatever its body says
IssueCommentKept_NoTriggerFilter(comment) == comment.body # ""

\* if (comment.body && !comment.body.includes("/create-issues"))
IssueCommentKept(comment) ==
  comment.body # "" /\ ~Includes(comment.body, TriggerPhrase)

\* const isResolved = resolutionMap.get(comment.id) || false;
\* if (comment.body && !isResolved)
ReviewCommentKept(comment, resolutionMap) ==
  LET isResolved == IF comment.id \in DOMAIN resolutionMap
                    THEN resolutionMap[comment.id] ELSE FALSE
  IN comment.body # "" /\ ~isResolved

fetchAllPRComments(issueData, reviewData, resolutionNodes) ==
  LET resolutionMap == ResolutionMap(resolutionNodes)
      issuePart ==
        Map(SelectSeq(issueData, IssueCommentKept),
            LAMBDA c : [body |-> c.body, id |-> c.id, type |-> "issue"])
      reviewPart ==
        Map(SelectSeq(reviewData, LAMBDA c : ReviewCommentKept(c, resolutionMap)),
            LAMBDA c : [body |-> "[" \o c.path \o ":" \o ToString(c.line) \o "] " \o c.body,
                        id |-> c.id, type |-> "review"])
  IN issuePart \o reviewPart

(***************************************************************************)
(* Linear: the tracker behind LinearSDK                                    *)
(***************************************************************************)

\* Priority (types.ts)
PriorityUrgent == 0
PriorityHigh == 1
PriorityMedium == 2
PriorityLow == 3
PriorityNoPriority == 4

UpperAlpha == "ABCDEFGHIJKLMNOPQRSTUVWXYZ"
LowerAlpha == "abcdefghijklmnopqrstuvwxyz"

\* the lower-case letter of each upper-case letter
LowerOf ==
  [c \in {SubSeq(UpperAlpha, k, k) : k \in 1..Len(UpperAlpha)} |->
     LET k == CHOOSE k \in 1..Len(UpperAlpha) : SubSeq(UpperAlpha, k, k) = c
     IN SubSeq(LowerAlpha, k, k)]

LowerChar(c) == IF c \in DOMAIN LowerOf THEN LowerOf[c] ELSE c

\* String.prototype.toLowerCase
RECURSIVE Lower(_)
Lower(s) ==
  IF Len(s) = 0 THEN ""
  ELSE LowerChar(SubSeq(s, 1, 1)) \o Lower(SubSeq(s, 2, Len(s)))

\* the directory returned by client.users()
Users ==
  << [id |-> "user-1", email |-> "test@example.com", name |-> "Test User",
      displayName |-> "Test"],
     [id |-> "user-2", email |-> "dev@example.com", name |-> "Test",
      displayName |-> "Dev"] >>

\* an absent id (undefined)
NoId == ""

\* the field is present in the object
Has(rec, field) == field \in DOMAIN rec

\* this.config.gitlinAutoTag || "gitlin-created"
AutoTag(config) ==
  IF config.gitlinAutoTag # "" THEN config.gitlinAutoTag ELSE "gitlin-created"

\* a LinearClient as constructed: no label cache yet, nothing called
NewClient(config) ==
  [config |-> config,
   hasLabelCache |-> FALSE,
   labelCache |-> <<>>,
   listLabelCalls |-> 0,
   createLabelCalls |-> 0,
   usersCalls |-> 0,
   createCalls |-> 0]

\* LinearClient.findIssuesByPRUrl: description { contains: prUrl }
findIssuesByPRUrl(trk, prUrl) ==
  SelectSeq(trk.issues, LAMBDA issue : Includes(issue.description, prUrl))

\* new Map(labels.nodes.map((label) => [label.name.toLowerCase(), label.id]))
RECURSIVE LabelMap(_)
LabelMap(nodes) ==
  IF Len(nodes) = 0 THEN <<>>
  ELSE LET last == nodes[Len(nodes)]
       IN (Lower(last.name) :> last.id) @@ LabelMap(SubSeq(nodes, 1, Len(nodes) - 1))

\* LinearClient.refreshLabelCache, the listing having succeeded
refreshLabelCache(client, trk) ==
  [client EXCEPT !.hasLabelCache = TRUE,
                 !.labelCache = LabelMap(trk.labels),
                 !.listLabelCalls = @ + 1]

\* Array.from(new Set(xs)): the first occurrence of each element, in order
RECURSIVE Unique(_)
Unique(xs) ==
  IF Len(xs) = 0 THEN <<>>
  ELSE LET init == Unique(SubSeq(xs, 1, Len(xs) - 1))
           last == xs[Len(xs)]
       IN IF last \in Range(init) THEN init ELSE Append(init, last)

\* LinearClient.applyLabelMapping
applyLabelMapping(config, labels) ==
  IF ~config.hasLabelMapping THEN labels
  ELSE LET mapped(label) ==
             IF Lower(label) \in DOMAIN config.labelMapping
             THEN config.labelMapping[Lower(label)] ELSE <<>>
       IN Unique(labels \o Flatten(Map(labels, mapped)))

\* a faulty variant: the ids are collected in an array, not in a Set
ResolveLabel_Array(st, labelName, autoTag, labelCreateOk) ==
  LET key == Lower(labelName)
      cached == IF key \in DOMAIN st.labelCache THEN st.labelCache[key] ELSE NoId
      tryCreate == cached = NoId /\ labelName = autoTag
      created == tryCreate /\ labelCreateOk
      newId == "label-" \o ToString(Len(st.labels) + 1)
      labelId == IF created THEN newId ELSE cached
  IN [labelCache |-> IF created THEN (key :> newId) @@ st.labelCache
                     ELSE st.labelCache,
      labels |-> IF created THEN Append(st.labels, [name |-> autoTag, id |-> newId])
                 ELSE st.labels,
      labelIds |-> IF labelId # NoId
                   THEN Append(st.labelIds, labelId) ELSE st.labelIds,
      createLabelCalls |-> st.createLabelCalls + (IF tryCreate THEN 1 ELSE 0),
      warnings |-> st.warnings
                   \o (IF tryCreate /\ ~created
                       THEN <<"Failed to create auto-tag label \"" \o autoTag \o "\"">>
                       ELSE <<>>)
                   \o (IF labelId = NoId
                       THEN <<"Label not found in Linear: " \o labelName>> ELSE <<>>)]

\* a faulty variant: every name the cache lacks is created
ResolveLabel_CreateAny(st, labelName, autoTag, labelCreateOk) ==
  LET key == Lower(labelName)
      cached == IF key \in DOMAIN st.labelCache THEN st.labelCache[key] ELSE NoId
      tryCreate == cached = NoId
      created == tryCreate /\ labelCreateOk
      newId == "label-" \o ToString(Len(st.labels) + 1)
      labelId == IF created THEN newId ELSE cached
  IN [labelCache |-> IF created THEN (key :> newId) @@ st.labelCache
                     ELSE st.labelCache,
      labels |-> IF created THEN Append(st.labels, [name |-> labelName, id |-> newId])
                 ELSE st.labels,
      labelIds |-> IF labelId # NoId /\ labelId \notin Range(st.labelIds)
                   THEN Append(st.labelIds, labelId) ELSE st.labelIds,
      createLabelCalls |-> st.createLabelCalls + (IF tryCreate THEN 1 ELSE 0),
      warnings |-> st.warnings
                   \o (IF tryCreate /\ ~created
                       THEN <<"Failed to create auto-tag label \"" \o autoTag \o "\"">>
                       ELSE <<>>)
                   \o (IF labelId = NoId
                       THEN <<"Label not found in Linear: " \o labelName>> ELSE <<>>)]

\* a faulty variant: a name the tracker lacks is entered in the cache too,
\* with no id
ResolveLabel_CachesMisses(st, labelName, autoTag, labelCreateOk) ==
  LET key == Lower(labelName)
      cached == IF key \in DOMAIN st.labelCache THEN st.labelCache[key] ELSE NoId
      tryCreate == cached = NoId /\ labelName = autoTag
      created == tryCreate /\ labelCreateOk
      newId == "label-" \o ToString(Len(st.labels) + 1)
      labelId == IF created THEN newId ELSE cached
  IN [labelCache |-> (key :> labelId) @@ st.labelCache,
      labels |-> IF created THEN Append(st.labels, [name |-> autoTag, id |-> newId])
                 ELSE st.labels,
      labelIds |-> IF labelId # NoId /\ labelId \notin Range(st.labelIds)
                   THEN Append(st.labelIds, labelId) ELSE st.labelIds,
      createLabelCalls |-> st.createLabelCalls + (IF tryCreate THEN 1 ELSE 0),
      warnings |-> st.warnings
                   \o (IF tryCreate /\ ~created
                       THEN <<"Failed to create auto-tag label \"" \o autoTag \o "\"">>
                       ELSE <<>>)
                   \o (IF labelId = NoId
                       THEN <<"Label not found in Linear: " \o labelName>> ELSE <<>>)]

\* one turn of the loop over labelsToApply in createIssue
ResolveLabel(st, labelName, autoTag, labelCreateOk) ==
  LET key == Lower(labelName)
      cached == IF key \in DOMAIN st.labelCache THEN st.labelCache[key] ELSE NoId
      tryCreate == cached = NoId /\ labelName = autoTag
      created == tryCreate /\ labelCreateOk
      newId == "label-" \o ToString(Len(st.labels) + 1)
      labelId == IF created THEN newId ELSE cached
  IN [labelCache |-> IF created THEN (key :> newId) @@ st.labelCache
                     ELSE st.labelCache,
      labels |-> IF created THEN Append(st.labels, [name |-> autoTag, id |-> newId])
                 ELSE st.labels,
      labelIds |-> IF labelId # NoId /\ labelId \notin Range(st.labelIds)
                   THEN Append(st.labelIds, labelId) ELSE st.labelIds,
      createLabelCalls |-> st.createLabelCalls + (IF tryCreate THEN 1 ELSE 0),
      warnings |-> st.warnings
                   \o (IF tryCreate /\ ~created
                       THEN <<"Failed to create auto-tag label \"" \o autoTag \o "\"">>
                       ELSE <<>>)
                   \o (IF labelId = NoId
                       THEN <<"Label not found in Linear: " \o labelName>> ELSE <<>>)]

RECURSIVE ResolveLabels(_, _, _, _)
ResolveLabels(st, names, autoTag, labelCreateOk) ==
  IF Len(names) = 0 THEN st
  ELSE ResolveLabels(ResolveLabel(st, Head(names), autoTag, labelCreateOk),
                     Tail(names), autoTag, labelCreateOk)

\* a faulty variant: 'unassigned' is recognised in lower case only
NeedsLookup_CaseSensitive(issue) ==
  /\ Has(issue, "assignee")
  /\ issue.assignee # ""
  /\ issue.assignee # "unassigned"

\* issue.assignee && issue.assignee.toLowerCase() !== "unassigned"
NeedsLookup(issue) ==
  /\ Has(issue, "assignee")
  /\ issue.assignee # ""
  /\ Lower(issue.assignee) # "unassigned"

\* a faulty variant: the last user that matches wins
FindUser_Last(assignee) ==
  LET hit(u) == \/ Lower(u.email) = Lower(assignee)
                \/ Lower(u.name) = Lower(assignee)
                \/ Lower(u.displayName) = Lower(assignee)
      matches == SelectSeq(Users, hit)
  IN IF Len(matches) > 0 THEN matches[Len(matches)].id ELSE NoId

\* the assignee lookup of createIssue, the directory having been fetched
FindUser(assignee) ==
  LET hit(u) == \/ Lower(u.email) = Lower(assignee)
                \/ Lower(u.name) = Lower(assignee)
                \/ Lower(u.displayName) = Lower(assignee)
      matches == SelectSeq(Users, hit)
  IN IF Len(matches) > 0 THEN matches[1].id ELSE NoId

\* a Priority, as a value handed to the tracker
Ordinal(n) == [type |-> "number", ordinal |-> n]

\* the lower-case property names an object literal inherits from
\* Object.prototype, and what a lookup of each yields: priorityMap is an
\* object literal, so priorityMap["constructor"] is the function Object and
\* priorityMap["__proto__"] is Object.prototype, neither of them nullish
InheritedKeys == {"constructor", "__proto__"}

Inherited(key) ==
  IF key = "constructor" THEN [type |-> "function", name |-> "Object"]
  ELSE [type |-> "object", name |-> "Object.prototype"]

\* priorityMap[issue.priority.toLowerCase()] ?? Priority.Medium
PriorityOf(priority) ==
  LET p == Lower(priority)
  IN CASE p = "urgent" -> Ordinal(PriorityUrgent)
       [] p = "high" -> Ordinal(PriorityHigh)
       [] p = "medium" -> Ordinal(PriorityMedium)
       [] p = "low" -> Ordinal(PriorityLow)
       [] p \in InheritedKeys -> Inherited(p)
       [] OTHER -> Ordinal(PriorityMedium)

\* a faulty variant: only the first comment is marked
CommentMarkers_OnlyFirst(comments) ==
  IF Len(comments) = 0 THEN ""
  ELSE "<!-- gitlin:comment:" \o ToString(Head(comments).id) \o " -->"

\* the hidden markers of createIssue, one per comment
RECURSIVE CommentMarkers(_)
CommentMarkers(comments) ==
  IF Len(comments) = 0 THEN ""
  ELSE "<!-- gitlin:comment:" \o ToString(Head(comments).id) \o " -->"
       \o CommentMarkers(Tail(comments))

\* a faulty variant: the markers are left out
BuildDescription_NoMarkers(issue, prUrl, comments) ==
  issue.description
  \o (IF prUrl # "" THEN "\n\n---\n\n**Related PR:** " \o prUrl ELSE "")
  \o (IF Has(issue, "effort") /\ issue.effort # ""
      THEN "\n**Estimated Effort:** " \o issue.effort ELSE "")

\* the description createIssue sends to the tracker
BuildDescription(issue, prUrl, comments) ==
  issue.description
  \o (IF prUrl # "" THEN "\n\n---\n\n**Related PR:** " \o prUrl ELSE "")
  \o (IF Len(comments) > 0 THEN "\n\n" \o CommentMarkers(comments) ELSE "")
  \o (IF Has(issue, "effort") /\ issue.effort # ""
      THEN "\n**Estimated Effort:** " \o issue.effort ELSE "")

\* what createIssue leaves behind when it throws
Thrown(client, trk, error) ==
  [threw |-> TRUE, error |-> error, client |-> client, tracker |-> trk,
   issue |-> [id |-> NoId], depIds |-> <<>>, description |-> "",
   warnings |-> <<>>]

DependencyNote ==
  "\n\n**Dependencies:** This issue depends on other issues being completed first."

\* a faulty variant: the unresolved indices are not filtered out
DepIds_NoFilter(issue, createdIssues) ==
  IF Has(issue, "dependencies")
  THEN Map(issue.dependencies,
           LAMBDA idx : IF idx \in DOMAIN createdIssues
                        THEN createdIssues[idx] ELSE NoId)
  ELSE <<>>

\* issue.dependencies.map((idx) => createdIssues.get(idx)).filter(Boolean)
DepIds(issue, createdIssues) ==
  IF Has(issue, "dependencies")
  THEN SelectSeq(Map(issue.dependencies,
                     LAMBDA idx : IF idx \in DOMAIN createdIssues
                                  THEN createdIssues[idx] ELSE NoId),
                 LAMBDA id : id # NoId)
  ELSE <<>>

\* what the tracker may answer to client.createIssue:
\*   ok: persisted, payload.success, payload.issue resolves
\*   rejects: the call rejects, nothing persisted
\*   notSuccess: payload.success is false or payload.issue is missing
\*   issueFetchFails: persisted, but awaiting payload.issue rejects
CreateOutcomes == {"ok", "rejects", "notSuccess", "issueFetchFails"}

\* LinearClient.createIssue; env is what the tracker answers to the calls it
\* makes, by is the invocation on whose behalf the issue is created.  What
\* it returns is the issue of the tracker; depIds and description are its
\* locals of those names as they are when it returns.
createIssue(client, trk, issue, createdIssues, prUrl, comments, env, by) ==
  IF ~Has(issue, "priority")
  THEN Thrown(client, trk,
              "TypeError: Cannot read properties of undefined (reading 'toLowerCase')")
  ELSE
  LET priority == PriorityOf(issue.priority)
      description == BuildDescription(issue, prUrl, comments)
      needList == ~client.hasLabelCache
  IN IF needList /\ ~env.labelsListOk
     THEN Thrown([client EXCEPT !.listLabelCalls = @ + 1], trk,
                 "Error: issueLabels failed")
     ELSE
     LET c1 == IF needList THEN refreshLabelCache(client, trk) ELSE client
         autoTag == AutoTag(c1.config)
         labelsToApply ==
           Append(IF Has(issue, "labels")
                  THEN applyLabelMapping(c1.config, issue.labels) ELSE <<>>,
                  autoTag)
         res == ResolveLabels([labelCache |-> c1.labelCache,
                               labels |-> trk.labels,
                               labelIds |-> <<>>,
                               createLabelCalls |-> c1.createLabelCalls,
                               warnings |-> <<>>],
                              labelsToApply, autoTag, env.labelCreateOk)
         lookUp == NeedsLookup(issue)
         assigneeId == IF lookUp /\ env.usersOk THEN FindUser(issue.assignee)
                       ELSE NoId
         warnings ==
           res.warnings
           \o (IF lookUp /\ ~env.usersOk
               THEN <<"Failed to look up assignee: Error: users failed">>
               ELSE IF lookUp /\ assigneeId = NoId
               THEN <<"Could not find Linear user for assignee: " \o issue.assignee
                      \o ". Issue will be unassigned.">>
               ELSE <<>>)
         c2 == [c1 EXCEPT !.labelCache = res.labelCache,
                          !.createLabelCalls = res.createLabelCalls,
                          !.usersCalls = @ + (IF lookUp THEN 1 ELSE 0),
                          !.createCalls = @ + 1]
         n == Len(trk.issues) + 1
         created == [id |-> "id-" \o ToString(n),
                     identifier |-> "TEAM-" \o ToString(n),
                     url |-> "https://linear.app/team/issue/TEAM-" \o ToString(n),
                     title |-> issue.title,
                     description |-> description,
                     priority |-> priority,
                     labelIds |-> res.labelIds,
                     assigneeId |-> assigneeId,
                     by |-> by]
         persisted == env.createOutcome \in {"ok", "issueFetchFails"}
         trk2 == [issues |-> IF persisted THEN Append(trk.issues, created)
                             ELSE trk.issues,
                  labels |-> res.labels]
         depIds == DepIds(issue, createdIssues)
     IN CASE env.createOutcome = "ok" ->
               [threw |-> FALSE, error |-> "", client |-> c2, tracker |-> trk2,
                issue |-> created, depIds |-> depIds, warnings |-> warnings,
                description |-> description
                                \o (IF Len(depIds) > 0 THEN DependencyNote ELSE "")]
          [] env.createOutcome = "rejects" ->
               [Thrown(c2, trk2, "Error: API Error") EXCEPT !.warnings = warnings]
          [] env.createOutcome = "notSuccess" ->
               [Thrown(c2, trk2, "Error: Failed to create Linear issue")
                  EXCEPT !.warnings = warnings]
          [] env.createOutcome = "issueFetchFails" ->
               [Thrown(c2, trk2, "Error: Failed to fetch the created issue")
                  EXCEPT !.warnings = warnings]

\* const result = { success: true, issues: [], errors: [] }
EmptyResult == [success |-> TRUE, issues |-> <<>>, errors |-> <<>>]

\* a faulty variant: the failure is recorded but the batch is abandoned
AfterFailure_Abandon(result, batchLen, i, title, error) ==
  [result |-> [result EXCEPT
                 !.errors = Append(@, "Failed to create issue \"" \o title
                                      \o "\": " \o error),
                 !.success = FALSE],
   next |-> batchLen]

\* a faulty variant: the failure is swallowed, nothing is recorded
AfterFailure_Silent(result, batchLen, i, title, error) ==
  [result |-> result, next |-> i + 1]

\* a faulty variant: the failure is recorded but success is left as it was
AfterFailure_KeepSuccess(result, batchLen, i, title, error) ==
  [result |-> [result EXCEPT
                 !.errors = Append(@, "Failed to create issue \"" \o title
                                      \o "\": " \o error)],
   next |-> i + 1]

\* a faulty variant: the failed item is tried again
AfterFailure_Retry(result, batchLen, i, title, error) ==
  [result |-> [result EXCEPT
                 !.errors = Append(@, "Failed to create issue \"" \o title
                                      \o "\": " \o error),
                 !.success = FALSE],
   next |-> i]

\* the catch branch of the loop of createIssues, and the i++ that follows
AfterFailure(result, batchLen, i, title, error) ==
  [result |-> [result EXCEPT
                 !.errors = Append(@, "Failed to create issue \"" \o title
                                      \o "\": " \o error),
                 !.success = FALSE],
   next |-> i + 1]

\* the try branch of the loop of createIssues, and the i++ that follows
AfterSuccess(result, i, title, linearIssue) ==
  [result |-> [result EXCEPT
                 !.issues = Append(@, [title |-> title,
                                       linearId |-> linearIssue.identifier,
                                       url |-> linearIssue.url])],
   next |-> i + 1]

(***************************************************************************)
(* AIParser.parseIssues                                                    *)
(***************************************************************************)

Priorities == {"urgent", "high", "medium", "low"}
Efforts == {"small", "medium", "large"}

\* ParsedIssueSchema (types.ts): the value is an object whose fields, where
\* present, have the JSON type the schema names
ParsedIssueSchema(obj) ==
  /\ Has(obj, "title") /\ Len(obj.title) >= 1
  /\ Has(obj, "description") /\ Len(obj.description) >= 1
  /\ Has(obj, "priority") /\ obj.priority \in Priorities
  /\ Has(obj, "effort") => obj.effort \in Efforts

\* JSON values as JSON.parse yields them, each with its type
Str(s) == [type |-> "string", val |-> s]
Num(n) == [type |-> "number", val |-> n]
Arr(xs) == [type |-> "array", val |-> xs]
Null == [type |-> "null"]

IsString(v) == v.type = "string"

\* z.array(element): an array whose elements all are of the type
IsArrayOf(v, type) ==
  /\ v.type = "array"
  /\ \A k \in DOMAIN v.val : v.val[k].type = type

\* a faulty variant: the priority is compared letter case apart
safeParse_CaseInsensitive(candidate) ==
  /\ Has(candidate, "title") /\ IsString(candidate.title)
  /\ Len(candidate.title.val) >= 1
  /\ Has(candidate, "description") /\ IsString(candidate.description)
  /\ Len(candidate.description.val) >= 1
  /\ Has(candidate, "priority") /\ IsString(candidate.priority)
  /\ Lower(candidate.priority.val) \in Priorities
  /\ Has(candidate, "effort") =>
       IsString(candidate.effort) /\ candidate.effort.val \in Efforts
  /\ Has(candidate, "labels") => IsArrayOf(candidate.labels, "string")
  /\ Has(candidate, "assignee") => IsString(candidate.assignee)
  /\ Has(candidate, "dependencies") => IsArrayOf(candidate.dependencies, "number")

\* ParsedIssueSchema.safeParse(candidate).success, the candidate an object of
\* JSON values of any type: z.object checks each key it names -- a key that
\* is absent (undefined) passes .optional(), null does not -- and ignores
\* the keys it does not name
safeParse(candidate) ==
  /\ Has(candidate, "title") /\ IsString(candidate.title)
  /\ Len(candidate.title.val) >= 1
  /\ Has(candidate, "description") /\ IsString(candidate.description)
  /\ Len(candidate.description.val) >= 1
  /\ Has(candidate, "priority") /\ IsString(candidate.priority)
  /\ candidate.priority.val \in Priorities
  /\ Has(candidate, "effort") =>
       IsString(candidate.effort) /\ candidate.effort.val \in Efforts
  /\ Has(candidate, "labels") => IsArrayOf(candidate.labels, "string")
  /\ Has(candidate, "assignee") => IsString(candidate.assignee)
  /\ Has(candidate, "dependencies") => IsArrayOf(candidate.dependencies, "number")

ParseFailed(error) ==
  [threw |-> TRUE, issues |-> <<>>,
   error |-> "Failed to parse issues from AI response: " \o error]

\* a faulty variant: the valid elements are kept, the others dropped
parseIssues_Partial(raw) ==
  IF raw.kind = "rejects"
  THEN [threw |-> TRUE, issues |-> <<>>, error |-> "request failed"]
  ELSE IF raw.kind = "notText"
  THEN [threw |-> TRUE, issues |-> <<>>,
        error |-> "Expected text response from Claude"]
  ELSE IF raw.kind = "notJson"
  THEN ParseFailed("SyntaxError")
  ELSE LET issues == IF raw.kind = "array" THEN raw.value ELSE <<raw.value>>
       IN [threw |-> FALSE, issues |-> SelectSeq(issues, ParsedIssueSchema),
           error |-> ""]

\* AIParser.parseIssues on the collaborator's answer raw:
\*   rejects: anthropic.messages.create rejects
\*   notText: the first content block is not text
\*   notJson: JSON.parse throws
\*   array / object: the JSON value parsed
parseIssues(raw) ==
  IF raw.kind = "rejects"
  THEN [threw |-> TRUE, issues |-> <<>>, error |-> "request failed"]
  ELSE IF raw.kind = "notText"
  THEN [threw |-> TRUE, issues |-> <<>>,
        error |-> "Expected text response from Claude"]
  ELSE IF raw.kind = "notJson"
  THEN ParseFailed("SyntaxError")
  ELSE LET issues == IF raw.kind = "array" THEN raw.value ELSE <<raw.value>>
       IN IF \A k \in DOMAIN issues : ParsedIssueSchema(issues[k])
          THEN [threw |-> FALSE, issues |-> issues, error |-> ""]
          ELSE ParseFailed("ZodError")

(***************************************************************************)
(* Gitlin: the duplicate checks                                            *)
(***************************************************************************)

Owner == "o"
Repo == "r"

\* `https://github.com/${owner}/${repo}/pull/${prNumber}`
PrUrl(prNumber) ==
  "https://github.com/" \o Owner \o "/" \o Repo \o "/pull/" \o ToString(prNumber)

Digits == "0123456789"

IsDigit(c) == \E k \in 1..Len(Digits) : SubSeq(Digits, k, k) = c

DigitValue(c) == (CHOOSE k \in 1..Len(Digits) : SubSeq(Digits, k, k) = c) - 1

\* parseInt(digits, 10)
RECURSIVE ParseInt(_)
ParseInt(digits) ==
  IF Len(digits) = 0 THEN 0
  ELSE 10 * ParseInt(SubSeq(digits, 1, Len(digits) - 1))
       + DigitValue(SubSeq(digits, Len(digits), Len(digits)))

\* the index after the digits that start at j (\d+ is greedy)
RECURSIVE DigitsEnd(_, _)
DigitsEnd(s, j) ==
  IF j <= Len(s) /\ IsDigit(SubSeq(s, j, j)) THEN DigitsEnd(s, j + 1) ELSE j

MarkerOpen == "<!-- gitlin:comment:"
MarkerClose == " -->"

\* /<!-- gitlin:comment:(\d+) -->/ matches at index i of s
MarkerAt(s, i) ==
  LET j == i + Len(MarkerOpen)
      e == DigitsEnd(s, j)
  IN /\ j - 1 <= Len(s)
     /\ SubSeq(s, i, j - 1) = MarkerOpen
     /\ e > j
     /\ e + Len(MarkerClose) - 1 <= Len(s)
     /\ SubSeq(s, e, e + Len(MarkerClose) - 1) = MarkerClose

\* description.matchAll(/<!-- gitlin:comment:(\d+) -->/g), each match parsed
ScanCommentIds(s) ==
  {ParseInt(SubSeq(s, i + Len(MarkerOpen), DigitsEnd(s, i + Len(MarkerOpen)) - 1)) :
     i \in {k \in 1..Len(s) : MarkerAt(s, k)}}

\* a faulty variant: a failed lookup counts every comment as processed
LookupFailed_AllProcessed(allComments) ==
  [alreadyProcessed |-> TRUE, processedIds |-> {c.id : c \in Range(allComments)}]

\* the catch branches of isPRProcessed and getProcessedCommentIds
LookupFailed(allComments) ==
  [alreadyProcessed |-> FALSE, processedIds |-> {}]

\* Gitlin.getProcessedCommentIds (dist/index.js), the query having succeeded
getProcessedCommentIds(trk, prNumber) ==
  UNION {ScanCommentIds(issue.description) :
           issue \in Range(findIssuesByPRUrl(trk, PrUrl(prNumber)))}

\* Gitlin.isPRProcessed (src/index.ts), the query having succeeded
isPRProcessed(trk, prNumber) ==
  LET prMarker == Owner \o "/" \o Repo \o "/pull/" \o ToString(prNumber)
  IN \E issue \in Range(findIssuesByPRUrl(trk, PrUrl(prNumber))) :
       Includes(issue.description, "<!-- gitlin:pr:" \o prMarker \o " -->")

\* a faulty variant: an empty list of comments is processed like any other
NoComments_Never(comments) == FALSE

\* if (allComments.length === 0) return ...; if (comments.length === 0)
\* return ...
NoComments(comments) == Len(comments) = 0

\* a faulty variant: nothing is filtered out
NewComments_All(allComments, processedIds) == allComments

\* allComments.filter(c => !processedIds.has(c.id))
NewComments(allComments, processedIds) ==
  SelectSeq(allComments, LAMBDA c : c.id \notin processedIds)

\* comments.map(c => c.body).join("\n\n---\n\n")
MergedText(comments) == Join(Map(comments, LAMBDA c : c.body), "\n\n---\n\n")

(***************************************************************************)
(* Gitlin.processComment, one action per awaited step                      *)
(***************************************************************************)

MsgAlreadyProcessed ==
  "This PR has already been processed. All comments have been converted to Linear issues. To create new issues, please add new comments and trigger the bot again on a fresh PR."

MsgNoComments == "No unresolved comments found on this PR."

MsgAllProcessed(n) ==
  "All " \o ToString(n)
  \o " comments have already been processed. No new issues to create."

MsgNoItems == "No actionable items found in the comments."

\* (the emoji the texts of the source start with are left out)
FailurePrefix == "Failed to create Linear issues: "

\* the catch branch of processComment
Failure(message) == FailurePrefix \o message

\* one line of text per element
Lines(xs, F(_)) == Join(Map(xs, F), "")

\* the response processComment builds from the result of createIssues
Response(result) ==
  "Created " \o ToString(Len(result.issues)) \o " Linear issue"
  \o (IF Len(result.issues) # 1 THEN "s" ELSE "") \o ":\n\n"
  \o Lines(result.issues,
           LAMBDA x : "- [" \o x.linearId \o "](" \o x.url \o ") " \o x.title \o "\n")
  \o (IF Len(result.errors) > 0
      THEN "\nErrors:\n" \o Lines(result.errors, LAMBDA e : "- " \o e \o "\n")
      ELSE "")

\* GitlinConfig as main builds it: no labelMapping, no gitlinAutoTag
MainConfig ==
  [hasLabelMapping |-> FALSE, labelMapping |-> <<>>, gitlinAutoTag |-> ""]

NoRaw == [kind |-> "none"]

\* the state of one invocation; entry is "main" (main calls processComment)
\* or "createIssues" (LinearClient.createIssues called on its own); depIds
\* and descriptions hold, per loop turn of createIssues, the locals of
\* createIssue of those names, warnings what it wrote with console.warn;
\* reactions are the reactions the invocation has put on the triggering
\* comment, exit is how the process ended ("none": it has not)
NewRun(entry, ctx, config, pc) ==
  [entry |-> entry,
   pc |-> pc,
   ctx |-> ctx,
   client |-> NewClient(config),
   lookup |-> "none",
   fetchFailed |-> "",
   alreadyProcessed |-> FALSE,
   processedIds |-> {},
   allComments |-> <<>>,
   comments |-> <<>>,
   commentBody |-> ctx.commentBody,
   raw |-> NoRaw,
   parseCalls |-> 0,
   parseThrew |-> FALSE,
   batch |-> <<>>,
   prUrl |-> "",
   commentsArg |-> <<>>,
   i |-> 0,
   attempted |-> <<>>,
   createdIssues |-> <<>>,
   depIds |-> <<>>,
   descriptions |-> <<>>,
   warnings |-> <<>>,
   result |-> EmptyResult,
   response |-> "",
   postCalls |-> 0,
   reactions |-> <<>>,
   exit |-> "none"]

\* processComment returns text
Returned(run, text) == [run EXCEPT !.pc = "returned", !.response = text]

Active(run) == run.pc # "done"

\* where processComment starts: with the duplicate check of the build on a
\* pull request, with the label listing otherwise
Entry(ctx) ==
  IF ctx.prNumber # 0
  THEN (IF build = "src" THEN "check" ELSE "fetch")
  ELSE "labels"

\* main, the context read from the environment: the 'eyes' reaction comes
\* first if the id of the triggering comment is known, processComment
\* otherwise
Launch(ctx) ==
  /\ runs' = Append(runs,
                    NewRun("main", ctx, MainConfig,
                           IF ctx.commentId # 0 THEN "eyes" ELSE Entry(ctx)))
  /\ UNCHANGED <<build, issueComments, reviewThreads, tracker>>

\* main is started, no other invocation being under way
StartRun(ctx) ==
  /\ \A r \in DOMAIN runs : ~Active(runs[r])
  /\ Launch(ctx)

\* a faulty variant: the failure of the call is passed on to the caller
addReaction_Propagates(reactions, reaction, ok) ==
  [threw |-> ~ok,
   reactions |-> IF ok THEN Append(reactions, reaction) ELSE reactions]

\* Gitlin.addReaction: ok is whether reactions.createForIssueComment succeeds;
\* a failure is caught and logged
addReaction(reactions, reaction, ok) ==
  [threw |-> FALSE,
   reactions |-> IF ok THEN Append(reactions, reaction) ELSE reactions]

\* the process ends: nothing of the invocation outlives it but what it wrote
\* to the tracker and to the thread (kept here: what it was run on, how its
\* lookup went, what it collected and what it merged, what createIssues
\* returned to it, the reactions it left)
Exited(run, code) ==
  [NewRun("main", run.ctx, MainConfig, "done") EXCEPT
     !.lookup = run.lookup,
     !.allComments = run.allComments,
     !.comments = run.comments,
     !.result = run.result,
     !.reactions = run.reactions,
     !.postCalls = run.postCalls,
     !.exit = code]

\* the catch block of main: the 'confused' reaction if the id of the
\* triggering comment is known, then the error is thrown on and the process
\* exits with 1
Caught(run) ==
  IF run.ctx.commentId # 0 THEN [run EXCEPT !.pc = "confused"]
  ELSE Exited(run, "failed")

\* main: await bot.addReaction(..., "eyes"), then processComment is entered
ReactEyes(r, ok) ==
  /\ runs[r].pc = "eyes"
  /\ \E out \in {addReaction(runs[r].reactions, "eyes", ok)} :
       runs' = [runs EXCEPT ![r] =
                  IF out.threw THEN Caught([@ EXCEPT !.reactions = out.reactions])
                  ELSE [@ EXCEPT !.reactions = out.reactions,
                                 !.pc = Entry(runs[r].ctx)]]
  /\ UNCHANGED <<build, issueComments, reviewThreads, tracker>>

\* src/index.ts: const alreadyProcessed = await this.isPRProcessed(...)
IsPRProcessed(r) ==
  /\ runs[r].pc = "check"
  /\ \E ok \in BOOLEAN :
       LET run == runs[r]
           found == IF ok THEN isPRProcessed(tracker, run.ctx.prNumber)
                    ELSE LookupFailed(<<>>).alreadyProcessed
           checked == [run EXCEPT !.lookup = IF ok THEN "ok" ELSE "failed",
                                  !.alreadyProcessed = found]
       IN runs' = [runs EXCEPT ![r] =
                     IF found THEN Returned(checked, MsgAlreadyProcessed)
                     ELSE [checked EXCEPT !.pc = "fetch"]]
  /\ UNCHANGED <<build, issueComments, reviewThreads, tracker>>

\* the issue comments as octokit.issues.listComments returns them
ListComments(cs) == cs

\* const allComments = await this.fetchAllPRComments(...), and what follows
\* it up to the next await
FetchAllPRComments(r) ==
  /\ runs[r].pc = "fetch"
  /\ \E failed \in {"", "listComments", "listReviewComments", "graphql"} :
     \E allComments \in {fetchAllPRComments(ListComments(issueComments),
                                              ListReviewComments(reviewThreads),
                                              GraphqlReviewThreads(reviewThreads))} :
       LET run == runs[r]
           fetched == [run EXCEPT !.allComments = allComments]
       IN runs' = [runs EXCEPT ![r] =
                     IF failed # ""
                     THEN Returned([run EXCEPT !.fetchFailed = failed],
                                   Failure("GitHub request failed"))
                     ELSE IF NoComments(allComments)
                     THEN Returned(fetched, MsgNoComments)
                     ELSE IF build = "src"
                     THEN [fetched EXCEPT !.comments = allComments,
                                          !.commentBody = MergedText(allComments),
                                          !.pc = "labels"]
                     ELSE [fetched EXCEPT !.pc = "dedup"]]
  /\ UNCHANGED <<build, issueComments, reviewThreads, tracker>>

\* dist/index.js: const processedIds = await this.getProcessedCommentIds(...),
\* the filter and the merge
GetProcessedCommentIds(r) ==
  /\ runs[r].pc = "dedup"
  /\ \E ok \in BOOLEAN :
     \E processedIds \in
          {IF ok THEN getProcessedCommentIds(tracker, runs[r].ctx.prNumber)
           ELSE LookupFailed(runs[r].allComments).processedIds} :
       LET run == runs[r]
           comments == NewComments(run.allComments, processedIds)
           looked == [run EXCEPT !.lookup = IF ok THEN "ok" ELSE "failed",
                                 !.processedIds = processedIds,
                                 !.comments = comments]
       IN runs' = [runs EXCEPT ![r] =
                     IF NoComments(comments)
                     THEN Returned(looked, MsgAllProcessed(Len(run.allComments)))
                     ELSE [looked EXCEPT !.commentBody = MergedText(comments),
                                         !.pc = "labels"]]
  /\ UNCHANGED <<build, issueComments, reviewThreads, tracker>>

\* a faulty variant: a failed listing is swallowed and the run goes on to
\* parseIssues without labels
GetAvailableLabels_Continues(r) ==
  /\ runs[r].pc = "labels"
  /\ \E ok \in BOOLEAN :
       LET run == runs[r]
       IN runs' = [runs EXCEPT ![r] =
                     IF run.client.hasLabelCache THEN [run EXCEPT !.pc = "parse"]
                     ELSE IF ~ok
                     THEN [run EXCEPT !.client.listLabelCalls = @ + 1,
                                      !.pc = "parse"]
                     ELSE [run EXCEPT !.client = refreshLabelCache(@, tracker),
                                      !.pc = "parse"]]
  /\ UNCHANGED <<build, issueComments, reviewThreads, tracker>>

\* const linearLabels = await this.linearClient.getAvailableLabels()
GetAvailableLabels(r) ==
  /\ runs[r].pc = "labels"
  /\ \E ok \in BOOLEAN :
       LET run == runs[r]
       IN runs' = [runs EXCEPT ![r] =
                     IF run.client.hasLabelCache THEN [run EXCEPT !.pc = "parse"]
                     ELSE IF ~ok
                     THEN Returned([run EXCEPT !.client.listLabelCalls = @ + 1],
                                   Failure("issueLabels failed"))
                     ELSE [run EXCEPT !.client = refreshLabelCache(@, tracker),
                                      !.pc = "parse"]]
  /\ UNCHANGED <<build, issueComments, reviewThreads, tracker>>

\* const issues = await this.aiParser.parseIssues({...context, commentBody},
\* linearLabels), and what follows it up to the call of createIssues
ParseIssues(r, raw) ==
  /\ runs[r].pc = "parse"
  /\ LET run == runs[r]
         parsed == parseIssues(raw)
         called == [run EXCEPT !.raw = raw,
                               !.parseCalls = @ + 1,
                               !.parseThrew = parsed.threw]
     IN runs' = [runs EXCEPT ![r] =
                   IF parsed.threw
                   THEN Returned(called, Failure(parsed.error))
                   ELSE IF Len(parsed.issues) = 0
                   THEN Returned(called, MsgNoItems)
                   ELSE [called EXCEPT
                           !.batch = parsed.issues,
                           !.prUrl = IF run.ctx.prNumber # 0
                                     THEN PrUrl(run.ctx.prNumber) ELSE "",
                           !.commentsArg = IF build = "src" THEN <<>>
                                           ELSE run.comments,
                           !.pc = "create"]]
  /\ UNCHANGED <<build, issueComments, reviewThreads, tracker>>

\* a faulty variant: the batch is walked from its end
ItemAt_Reversed(batch, i) == batch[Len(batch) - i]

\* const issue = issues[i]
ItemAt(batch, i) == batch[i + 1]

\* LinearClient.createIssues: one turn of the loop, for the item at index i
\* (0-based, as in the source)
CreateIssues(r, env) ==
  /\ runs[r].pc = "create"
  /\ runs[r].i < Len(runs[r].batch)
  /\ LET run == runs[r]
         issue == ItemAt(run.batch, run.i)
     IN \E out \in {createIssue(run.client, tracker, issue, run.createdIssues,
                                run.prUrl, run.commentsArg, env, r)} :
          LET after == IF out.threw
                       THEN AfterFailure(run.result, Len(run.batch), run.i,
                                         issue.title, out.error)
                       ELSE AfterSuccess(run.result, run.i, issue.title, out.issue)
          IN /\ runs' = [runs EXCEPT ![r] =
                           [run EXCEPT
                              !.client = out.client,
                              !.attempted = Append(@, run.i),
                              !.depIds = Append(@, out.depIds),
                              !.descriptions = Append(@, out.description),
                              !.warnings = @ \o out.warnings,
                              !.createdIssues = IF out.threw THEN @
                                                ELSE (run.i :> out.issue.id) @@ @,
                              !.result = after.result,
                              !.i = after.next]]
             /\ tracker' = out.tracker
  /\ UNCHANGED <<build, issueComments, reviewThreads>>

\* createIssues returns its result; processComment builds the response
ReturnResult(r) ==
  /\ runs[r].pc = "create"
  /\ runs[r].i >= Len(runs[r].batch)
  /\ runs' = [runs EXCEPT ![r] =
                IF runs[r].entry = "main"
                THEN Returned(runs[r], Response(runs[r].result))
                ELSE [runs[r] EXCEPT !.pc = "returned"]]
  /\ UNCHANGED <<build, issueComments, reviewThreads, tracker>>

\* octokit.issues.createComment on the pull request, having succeeded
PostComment(cs, reviewComments, body) ==
  Append(cs, [id |-> Len(cs) + Len(reviewComments) + 1, body |-> body])

\* main: processComment has returned; await bot.addReaction(..., "rocket")
ReactRocket(r, ok) ==
  /\ runs[r].pc = "returned"
  /\ runs[r].entry = "main"
  /\ runs[r].ctx.commentId # 0
  /\ \E out \in {addReaction(runs[r].reactions, "rocket", ok)} :
       runs' = [runs EXCEPT ![r] =
                  IF out.threw THEN Caught([@ EXCEPT !.reactions = out.reactions])
                  ELSE [@ EXCEPT !.reactions = out.reactions, !.pc = "post"]]
  /\ UNCHANGED <<build, issueComments, reviewThreads, tracker>>

\* const issueNumber = context.prNumber || context.issueNumber
PostTarget(ctx) == IF ctx.prNumber # 0 THEN ctx.prNumber ELSE ctx.issueNumber

\* a faulty variant: a failed postComment is tried a second time
FinishRun_Retries(r, posted) ==
  /\ runs[r].entry = "main"
  /\ \/ runs[r].pc = "post"
     \/ runs[r].pc = "returned" /\ runs[r].ctx.commentId = 0
  /\ \E called \in {[runs[r] EXCEPT
                        !.postCalls = IF PostTarget(runs[r].ctx) # 0
                                      THEN @ + 1 ELSE @]} :
       runs' = [runs EXCEPT ![r] =
                  IF posted \/ PostTarget(runs[r].ctx) = 0
                  THEN Exited(called, "ok")
                  ELSE IF called.postCalls < 2 THEN called
                  ELSE Caught(called)]
  /\ issueComments' =
       IF posted /\ runs[r].ctx.prNumber # 0
       THEN PostComment(issueComments, ListReviewComments(reviewThreads),
                        runs[r].response)
       ELSE issueComments
  /\ UNCHANGED <<build, reviewThreads, tracker>>

\* main posts the response on the pull request or issue it was triggered on
\* (posted: createComment succeeds) and returns, the process exiting with 0;
\* if postComment throws, the catch block of main is entered
FinishRun(r, posted) ==
  /\ runs[r].entry = "main"
  /\ \/ runs[r].pc = "post"
     \/ runs[r].pc = "returned" /\ runs[r].ctx.commentId = 0
  /\ \E called \in {[runs[r] EXCEPT
                        !.postCalls = IF PostTarget(runs[r].ctx) # 0
                                      THEN @ + 1 ELSE @]} :
       runs' = [runs EXCEPT ![r] =
                  IF posted \/ PostTarget(runs[r].ctx) = 0
                  THEN Exited(called, "ok")
                  ELSE Caught(called)]
  /\ issueComments' =
       IF posted /\ runs[r].ctx.prNumber # 0
       THEN PostComment(issueComments, ListReviewComments(reviewThreads),
                        runs[r].response)
       ELSE issueComments
  /\ UNCHANGED <<build, reviewThreads, tracker>>

\* the catch block of main: await bot.addReaction(..., "confused"); throw
\* error (if addReaction throws, its error is thrown instead): exit with 1
ReactConfused(r, ok) ==
  /\ runs[r].pc = "confused"
  /\ \E out \in {addReaction(runs[r].reactions, "confused", ok)} :
       runs' = [runs EXCEPT ![r] =
                  Exited([@ EXCEPT !.reactions = out.reactions], "failed")]
  /\ UNCHANGED <<build, issueComments, reviewThreads, tracker>>

(***************************************************************************)
(* The environment: people commenting on the pull request                  *)
(***************************************************************************)

\* the sequences over S of length at most n
SeqsUpTo(S, n) == UNION {[1..k -> S] : k \in 0..n}

AllReviewComments == ListReviewComments(reviewThreads)

CommentCount == Len(issueComments) + Len(AllReviewComments)

ReviewComment(id, body) ==
  [id |-> id, body |-> body, path |-> "src/app.ts", line |-> 7]

\* no invocation is under way (a comment posted while one runs is seen by it
\* as if posted before it started or after it ended: it fetches once)
Idle == \A r \in DOMAIN runs : ~Active(runs[r])

\* someone posts a general comment on the pull request
PostIssueComment(body) ==
  /\ Idle
  /\ issueComments' = Append(issueComments, [id |-> CommentCount + 1, body |-> body])
  /\ UNCHANGED <<build, reviewThreads, tracker, runs>>

\* someone posts a review comment: a reply in thread t, or a new thread
PostReviewComment(t, body) ==
  /\ Idle
  /\ LET comment == ReviewComment(CommentCount + 1, body)
     IN reviewThreads' =
          IF t \in DOMAIN reviewThreads
          THEN [reviewThreads EXCEPT ![t].comments = Append(@, comment)]
          ELSE Append(reviewThreads,
                      [isResolved |-> FALSE, comments |-> <<comment>>])
  /\ UNCHANGED <<build, issueComments, tracker, runs>>

\* someone resolves or reopens thread t
SetResolved(t, resolved) ==
  /\ Idle
  /\ t \in DOMAIN reviewThreads
  /\ reviewThreads[t].isResolved # resolved
  /\ reviewThreads' = [reviewThreads EXCEPT ![t].isResolved = resolved]
  /\ UNCHANGED <<build, issueComments, tracker, runs>>

(***************************************************************************)
(* Spec: invocations of main, one after the other, on an evolving thread   *)
(***************************************************************************)

MaxRuns == 2
MaxComments == 2

IssueBodies == {"Fix bug A"}
ReviewBodies == {"nit: rename x"}

\* the contexts main is started with: on the pull request, or on an issue
\* (COMMENT_BODY || "" is the body of the triggering comment; COMMENT_ID is
\* not set, commentId is undefined and main adds no reaction)
PrContext == [prNumber |-> 1, issueNumber |-> 0, commentId |-> 0,
   commentBody |-> "/create-issues"]

Contexts ==
  {PrContext,
   [prNumber |-> 0, issueNumber |-> 5, commentId |-> 0,
    commentBody |-> "/create-issues"],
   [prNumber |-> 0, issueNumber |-> 5, commentId |-> 0, commentBody |-> ""]}

ItemA ==
  [title |-> "Fix bug A", description |-> "Bug A must be fixed", priority |-> "high"]

ItemB ==
  [title |-> "Add tests", description |-> "Cover the fix", priority |-> "low",
   effort |-> "small", dependencies |-> <<0>>]

ItemBad ==
  [title |-> "Rewrite", description |-> "Rewrite it all", priority |-> "critical"]

\* what the extraction collaborator may answer
AIOutputs ==
  {[kind |-> "rejects"],
   [kind |-> "notJson"],
   [kind |-> "array", value |-> <<>>],
   [kind |-> "array", value |-> <<ItemA>>],
   [kind |-> "array", value |-> <<ItemA, ItemB>>],
   [kind |-> "array", value |-> <<ItemA, ItemBad>>],
   [kind |-> "object", value |-> ItemA]}

\* what the tracker may answer during one createIssue
Envs ==
  [labelsListOk : BOOLEAN, labelCreateOk : BOOLEAN, usersOk : BOOLEAN,
   createOutcome : CreateOutcomes]

\* in Spec the label and user queries of the tracker succeed (SpecRun and
\* SpecBatch let them fail)
SeqEnvs == {env \in Envs : env.labelsListOk /\ env.labelCreateOk /\ env.usersOk}

InitialLabels == <<[name |-> "Bug", id |-> "label-1"]>>

Init ==
  /\ build \in {"src", "dist"}
  /\ issueComments = <<>>
  /\ reviewThreads = <<>>
  /\ tracker = [issues |-> <<>>, labels |-> InitialLabels]
  /\ runs = <<>>

Next ==
  \/ \E body \in IssueBodies :
       /\ Len(runs) < MaxRuns /\ CommentCount < MaxComments
       /\ PostIssueComment(body)
  \/ \E t \in 1..(Len(reviewThreads) + 1), body \in ReviewBodies :
       /\ Len(runs) < MaxRuns /\ CommentCount < MaxComments
       /\ PostReviewComment(t, body)
  \/ \E t \in DOMAIN reviewThreads, resolved \in BOOLEAN :
       Len(runs) < MaxRuns /\ SetResolved(t, resolved)
  \/ Len(runs) < MaxRuns /\ StartRun(PrContext)
  \/ \E r \in DOMAIN runs : IsPRProcessed(r)
  \/ \E r \in DOMAIN runs : FetchAllPRComments(r)
  \/ \E r \in DOMAIN runs : GetProcessedCommentIds(r)
  \/ \E r \in DOMAIN runs : GetAvailableLabels(r)
  \/ \E r \in DOMAIN runs, raw \in AIOutputs : ParseIssues(r, raw)
  \/ \E r \in DOMAIN runs, env \in SeqEnvs : CreateIssues(r, env)
  \/ \E r \in DOMAIN runs : ReturnResult(r)
  \/ \E r \in DOMAIN runs, posted \in BOOLEAN : FinishRun(r, posted)

Spec == Init /\ [][Next]_vars

(***************************************************************************)
(* SpecCollect: fetchAllPRComments on the states of a pull request         *)
(***************************************************************************)

MaxGeneral == 2
MaxThreads == 2

GeneralBodies ==
  {"", "Fix bug A", "/create-issues", "please /create-issues now"}

ThreadBodies == {"", "nit: rename x", "then /create-issues"}

\* the lengths of a review thread, around the page size of the query
ThreadLens == {1, 2, CommentsFirst, CommentsFirst + 1}

\* thread t of n comments, every one with the same body
Thread(t, n, body, resolved) ==
  [isResolved |-> resolved,
   comments |-> [k \in 1..n |-> ReviewComment(100 * t + k, body)]]

\* the ids of the general comments start at 1 or at 101: listComments and
\* listReviewComments number their comments independently of one another, and
\* 101 is also the id of the first review comment of the first thread
InitCollect ==
  /\ build = "dist"
  /\ \E bodies \in SeqsUpTo(GeneralBodies, MaxGeneral), base \in {0, 100} :
       /\ (base = 0 \/ bodies # <<>>)
       /\ issueComments =
            [k \in DOMAIN bodies |-> [id |-> base + k, body |-> bodies[k]]]
  /\ \E body \in ThreadBodies :
       \E shape \in SeqsUpTo(ThreadLens \X BOOLEAN, MaxThreads) :
         reviewThreads =
           [t \in DOMAIN shape |-> Thread(t, shape[t][1], body, shape[t][2])]
  /\ tracker = [issues |-> <<>>, labels |-> InitialLabels]
  /\ runs = <<NewRun("main",
                     [prNumber |-> 1, issueNumber |-> 0, commentId |-> 0,
                      commentBody |-> "/create-issues"],
                     MainConfig, "fetch")>>

NextCollect == \E r \in DOMAIN runs : FetchAllPRComments(r)

SpecCollect == InitCollect /\ [][NextCollect]_vars

(***************************************************************************)
(* SpecBatch: LinearClient.createIssues called on a batch                  *)
(***************************************************************************)

MaxBatch == 2

Item1 ==
  [title |-> "Fix bug A", description |-> "Bug A must be fixed", priority |-> "high"]

Item2 ==
  [title |-> "Add tests", description |-> "Cover the fix", priority |-> "Low",
   effort |-> "small", labels |-> <<"bug", "Bug", "missing">>,
   dependencies |-> <<0, 1, 5>>]

Item3 ==
  [title |-> "Rotate keys", description |-> "Keys are old", priority |-> "urgent",
   assignee |-> "TEST", labels |-> <<"gitlin-created">>]

Item4 == [title |-> "Tidy up", description |-> "No priority given"]

BatchItems == {Item1, Item2, Item3, Item4}

MappedConfig ==
  [hasLabelMapping |-> TRUE,
   labelMapping |-> ("bug" :> <<"defect", "Bug">>),
   gitlinAutoTag |-> ""]

BatchComments ==
  <<[body |-> "Fix bug A", id |-> 1, type |-> "issue"],
    [body |-> "[src/app.ts:7] nit: rename x", id |-> 12, type |-> "review"]>>

InitBatch ==
  /\ build = "dist"
  /\ issueComments = <<>>
  /\ reviewThreads = <<>>
  /\ \E labels \in {InitialLabels,
                    Append(InitialLabels, [name |-> "gitlin-created", id |-> "label-2"])} :
       tracker = [issues |-> <<>>, labels |-> labels]
  /\ \E batch \in SeqsUpTo(BatchItems, MaxBatch), config \in {MainConfig, MappedConfig},
        onPr \in BOOLEAN :
       runs = <<[NewRun("createIssues",
                        [prNumber |-> 0, issueNumber |-> 0, commentId |-> 0,
                         commentBody |-> ""],
                        config, "create")
                 EXCEPT !.batch = batch,
                        !.prUrl = IF onPr THEN PrUrl(1) ELSE "",
                        !.commentsArg = IF onPr THEN BatchComments ELSE <<>>]>>

NextBatch ==
  \/ \E r \in DOMAIN runs, env \in Envs : CreateIssues(r, env)
  \/ \E r \in DOMAIN runs : ReturnResult(r)

SpecBatch == InitBatch /\ [][NextBatch]_vars

(***************************************************************************)
(* SpecRun: one invocation of main, from any context, on a pull request    *)
(* that an earlier invocation may already have been run on                 *)
(***************************************************************************)

RunBodies == {"Fix bug A", "/create-issues"}

FirstComment == [body |-> "Fix bug A", id |-> 1, type |-> "issue"]

\* the tracker after an earlier invocation (dist/index.js) that merged the
\* first comment of the pull request and created ItemA from it
TrackerAfterEarlierRun ==
  createIssue(refreshLabelCache(NewClient(MainConfig),
                                [issues |-> <<>>, labels |-> InitialLabels]),
              [issues |-> <<>>, labels |-> InitialLabels],
              ItemA, <<>>, PrUrl(1), <<FirstComment>>,
              [labelsListOk |-> TRUE, labelCreateOk |-> TRUE, usersOk |-> TRUE,
               createOutcome |-> "ok"],
              0).tracker

\* the tracker after an invocation (dist/index.js) on pull request 12 of the
\* same repository that merged its general comment 101 and created ItemA
TrackerAfterOtherPR ==
  createIssue(refreshLabelCache(NewClient(MainConfig),
                                [issues |-> <<>>, labels |-> InitialLabels]),
              [issues |-> <<>>, labels |-> InitialLabels],
              ItemA, <<>>, PrUrl(12),
              <<[body |-> "Fix bug A", id |-> 101, type |-> "issue"]>>,
              [labelsListOk |-> TRUE, labelCreateOk |-> TRUE, usersOk |-> TRUE,
               createOutcome |-> "ok"],
              0).tracker

InitRun ==
  /\ build \in {"src", "dist"}
  /\ \E bodies \in SeqsUpTo(RunBodies, MaxGeneral) :
       issueComments = [k \in DOMAIN bodies |-> [id |-> k, body |-> bodies[k]]]
  /\ reviewThreads \in {<<>>,
                        <<Thread(1, 1, "nit: rename x", FALSE)>>,
                        <<Thread(1, 1, "nit: rename x", TRUE)>>,
                        <<Thread(1, 1, "then /create-issues", FALSE)>>}
  /\ tracker \in {[issues |-> <<>>, labels |-> InitialLabels],
                  TrackerAfterEarlierRun, TrackerAfterOtherPR}
  /\ runs = <<>>

NextRun ==
  \/ \E ctx \in Contexts : Len(runs) = 0 /\ StartRun(ctx)
  \/ \E r \in DOMAIN runs : IsPRProcessed(r)
  \/ \E r \in DOMAIN runs : FetchAllPRComments(r)
  \/ \E r \in DOMAIN runs : GetProcessedCommentIds(r)
  \/ \E r \in DOMAIN runs : GetAvailableLabels(r)
  \/ \E r \in DOMAIN runs, raw \in AIOutputs : ParseIssues(r, raw)
  \/ \E r \in DOMAIN runs, env \in Envs : CreateIssues(r, env)
  \/ \E r \in DOMAIN runs : ReturnResult(r)
  \/ \E r \in DOMAIN runs, posted \in BOOLEAN : FinishRun(r, posted)

SpecRun == InitRun /\ [][NextRun]_vars

(***************************************************************************)
(* SpecItem: LinearClient.createIssues called on one item, the fields of   *)
(* the item drawn from the texts a caller may pass                         *)
(***************************************************************************)

PriorityTexts ==
  {"urgent", "high", "medium", "low", "URGENT", "High", "MeDiUm", "LOW",
   "critical", "", "none", "4", "nopriority", "constructor", "__proto__"}

BaseItem == [title |-> "Task", description |-> "Do it"]

\* the item with one more field
With(item, field, value) == (field :> value) @@ item

\* the items: no priority, or one of the texts
PriorityItems ==
  {BaseItem} \cup {With(BaseItem, "priority", p) : p \in PriorityTexts}

\* an item with an effort: its line follows the markers in the description
EffortItem == With(With(BaseItem, "priority", "high"), "effort", "small")

\* the label lists of an item: a name twice, a name in several spellings,
\* names the tracker does not have, the provenance label asked for by name
LabelItems ==
  {With(With(BaseItem, "priority", "high"), "labels", ls) :
     ls \in {<<>>, <<"security", "security">>, <<"Security", "SECURITY", "security">>,
             <<"bug", "security", "Bug">>, <<"missing", "security">>,
             <<"gitlin-created", "Gitlin-Created">>}}

\* the assignee hints of an item: none, spellings of 'unassigned', the email,
\* name or displayName of a user in several cases ("TEST" is the displayName
\* of the first user and the name of the second), nobody's
AssigneeItems ==
  {With(With(BaseItem, "priority", "high"), "assignee", a) :
     a \in {"", "unassigned", "Unassigned", "UNASSIGNED", "test@example.com",
            "TEST@Example.com", "TEST", "dev", "test user", "nobody"}}

Items == PriorityItems \cup {EffortItem} \cup LabelItems \cup AssigneeItems

\* the labels of the tracker before the call
ItemLabels == Append(InitialLabels, [name |-> "security", id |-> "label-2"])

MaxMarked == 2

\* ids of comments: one digit, ids that are prefixes of one another, and a
\* long one

\* the comments a caller may pass: ids in any order, an id may come twice
\* (issue comments and review comments are numbered apart)
CommentArgs ==
  {[k \in DOMAIN ids |-> [id |-> ids[k], body |-> "Fix bug A", type |-> "issue"]] :
     ids \in SeqsUpTo({1, 12, 120, 1234567890}, MaxMarked)}

InitItem ==
  /\ build = "dist"
  /\ issueComments = <<>>
  /\ reviewThreads = <<>>
  /\ tracker = [issues |-> <<>>, labels |-> ItemLabels]
  /\ \E item \in Items, prUrl \in {"", PrUrl(1)}, comments \in CommentArgs :
       runs = <<[NewRun("createIssues",
                        [prNumber |-> 0, issueNumber |-> 0, commentId |-> 0,
                         commentBody |-> ""],
                        MainConfig, "create")
                 EXCEPT !.batch = <<item>>,
                        !.prUrl = prUrl,
                        !.commentsArg = comments]>>

NextItem ==
  \/ \E r \in DOMAIN runs, env \in Envs : CreateIssues(r, env)
  \/ \E r \in DOMAIN runs : ReturnResult(r)

SpecItem == InitItem /\ [][NextItem]_vars

(***************************************************************************)
(* SpecMain: one invocation of main on the comment that triggered it, with *)
(* the reactions main puts on that comment                                 *)
(***************************************************************************)

\* the pull request: a comment to act on and the comment that triggers main
MainComments ==
  <<[id |-> 1, body |-> "Fix bug A"], [id |-> 2, body |-> "/create-issues"]>>

\* the contexts: COMMENT_ID set (on the pull request, on an issue, on
\* neither) or not set
MainContexts ==
  {[prNumber |-> 1, issueNumber |-> 0, commentId |-> 2,
    commentBody |-> "/create-issues"],
   [prNumber |-> 0, issueNumber |-> 5, commentId |-> 2,
    commentBody |-> "/create-issues"],
   [prNumber |-> 0, issueNumber |-> 0, commentId |-> 2,
    commentBody |-> "/create-issues"],
   PrContext}

InitMain ==
  /\ build \in {"src", "dist"}
  /\ issueComments = MainComments
  /\ reviewThreads = <<>>
  /\ tracker = [issues |-> <<>>, labels |-> InitialLabels]
  /\ runs = <<>>

NextMain ==
  \/ \E ctx \in MainContexts : Len(runs) = 0 /\ StartRun(ctx)
  \/ \E r \in DOMAIN runs, ok \in BOOLEAN : ReactEyes(r, ok)
  \/ \E r \in DOMAIN runs : IsPRProcessed(r)
  \/ \E r \in DOMAIN runs : FetchAllPRComments(r)
  \/ \E r \in DOMAIN runs : GetProcessedCommentIds(r)
  \/ \E r \in DOMAIN runs : GetAvailableLabels(r)
  \/ \E r \in DOMAIN runs, raw \in AIOutputs : ParseIssues(r, raw)
  \/ \E r \in DOMAIN runs, env \in Envs : CreateIssues(r, env)
  \/ \E r \in DOMAIN runs : ReturnResult(r)
  \/ \E r \in DOMAIN runs, ok \in BOOLEAN : ReactRocket(r, ok)
  \/ \E r \in DOMAIN runs, posted \in BOOLEAN : FinishRun(r, posted)
  \/ \E r \in DOMAIN runs, ok \in BOOLEAN : ReactConfused(r, ok)

SpecMain == InitMain /\ [][NextMain]_vars

(***************************************************************************)
(* SpecRace: invocations of main on one pull request that overlap          *)
(***************************************************************************)

MaxOverlap == 2

\* main is started whatever other invocations are under way: each is a
\* process of its own, and nothing in main or processComment waits for
\* another
StartOverlapping(ctx) ==
  /\ Len(runs) < MaxOverlap
  /\ Launch(ctx)

\* what the extraction answers: one item
RaceOutputs == {[kind |-> "array", value |-> <<ItemA>>]}

InitRace ==
  /\ build \in {"src", "dist"}
  /\ issueComments = <<[id |-> 1, body |-> "Fix bug A"]>>
  /\ reviewThreads = <<>>
  /\ tracker = [issues |-> <<>>, labels |-> InitialLabels]
  /\ runs = <<>>

NextRace ==
  \/ StartOverlapping(PrContext)
  \/ \E r \in DOMAIN runs : IsPRProcessed(r)
  \/ \E r \in DOMAIN runs : FetchAllPRComments(r)
  \/ \E r \in DOMAIN runs : GetProcessedCommentIds(r)
  \/ \E r \in DOMAIN runs : GetAvailableLabels(r)
  \/ \E r \in DOMAIN runs, raw \in RaceOutputs : ParseIssues(r, raw)
  \/ \E r \in DOMAIN runs, env \in SeqEnvs : CreateIssues(r, env)
  \/ \E r \in DOMAIN runs : ReturnResult(r)
  \/ \E r \in DOMAIN runs, posted \in BOOLEAN : FinishRun(r, posted)

SpecRace == InitRace /\ [][NextRace]_vars

(***************************************************************************)
(* SpecSchema: ParsedIssueSchema.safeParse on candidate items              *)
(***************************************************************************)

\* an absent key
Absent == [type |-> "undefined"]

\* the object with the key, unless the value is absent
Put(obj, key, v) == IF v = Absent THEN obj ELSE (key :> v) @@ obj

\* the candidates: each key absent, or with a value of the right or of a
\* wrong type, within or outside what the schema allows; and a key the
\* schema does not name
Candidates ==
  {Put(Put(Put(Put(Put(Put(Put(Put(<<>>, "title", t), "description", d),
                           "priority", p), "effort", e), "labels", l),
               "assignee", a), "dependencies", dep), "extra", x) :
     t \in {Absent, Str("Fix bug"), Str(""), Num(7), Null},
     d \in {Absent, Str("Fix the authentication bug"), Str("")},
     p \in {Absent, Num(1), Str(""), Str("critical"), Str("High"), Str("URGENT")}
           \cup {Str(w) : w \in Priorities},
     e \in {Absent, Null, Str("Small"), Str("huge")} \cup {Str(w) : w \in Efforts},
     l \in {Absent, Arr(<<>>), Arr(<<Str("bug"), Str("backend")>>), Str("bug"),
            Arr(<<Str("bug"), Num(1)>>)},
     a \in {Absent, Str("user@example.com"), Num(7)},
     dep \in {Absent, Arr(<<Num(0), Num(1)>>), Arr(<<Str("0")>>)},
     x \in {Absent, Str("anything")}}

InitSchema ==
  /\ build = "dist"
  /\ issueComments = <<>>
  /\ reviewThreads = <<>>
  /\ tracker = [issues |-> <<>>, labels |-> InitialLabels]
  /\ \E candidate \in Candidates :
       runs = <<[NewRun("safeParse",
                        [prNumber |-> 0, issueNumber |-> 0, commentId |-> 0,
                         commentBody |-> ""],
                        MainConfig, "validate")
                 EXCEPT !.raw = [kind |-> "object", value |-> candidate]]>>

\* ParsedIssueSchema.safeParse(candidate); the response is its success
SafeParse(r) ==
  /\ runs[r].pc = "validate"
  /\ runs' = [runs EXCEPT ![r] =
                Returned(@, IF safeParse(runs[r].raw.value) THEN "success"
                            ELSE "failure")]
  /\ UNCHANGED <<build, issueComments, reviewThreads, tracker>>

NextSchema == \E r \in DOMAIN runs : SafeParse(r)

SpecSchema == InitSchema /\ [][NextSchema]_vars

(***************************************************************************)
(* The claims                                                              *)
(***************************************************************************)

Ids(comments) == {c.id : c \in Range(comments)}

\* the runs of createIssues that have been entered
InBatch(run) == run.pc \in {"create", "returned"} /\ run.entry = "createIssues"

\* the batch indices whose createIssue returned, and those where it threw
Succeeded(run) == DOMAIN run.createdIssues
FailedSeq(run) == SelectSeq(run.attempted, LAMBDA i : i \notin Succeeded(run))
SucceededSeq(run) == SelectSeq(run.attempted, LAMBDA i : i \in Succeeded(run))

\* C1: every batch item contributes exactly one entry, to issues or to
\* errors: while createIssues is at index i the two lists hold i entries
\* together, i never passes the length of the batch, and the result returned
\* holds as many entries as the batch has items.
C1_OneEntryPerItem ==
  \A r \in DOMAIN runs :
    LET run == runs[r]
    IN InBatch(run) =>
         /\ Len(run.result.issues) + Len(run.result.errors) = run.i
         /\ run.i <= Len(run.batch)
         /\ run.pc = "returned" =>
              Len(run.result.issues) + Len(run.result.errors) = Len(run.batch)

\* createIssues has returned for a batch of two, one created and one failed
C1_Witness ==
  \E r \in DOMAIN runs :
    /\ InBatch(runs[r]) /\ runs[r].pc = "returned"
    /\ Len(runs[r].batch) = 2
    /\ Len(runs[r].result.issues) = 1
    /\ Len(runs[r].result.errors) = 1

\* C2: failure isolation: an item whose creation fails leaves its message
\* in errors and makes success false, and every later item is still
\* attempted: the items are attempted in index order, each once, and the
\* result returned has attempted all of them.
C2_FailureIsolated ==
  \A r \in DOMAIN runs :
    LET run == runs[r]
        failed == FailedSeq(run)
    IN InBatch(run) =>
         /\ run.attempted = [k \in 1..run.i |-> k - 1]
         /\ run.pc = "returned" => Len(run.attempted) = Len(run.batch)
         /\ Len(run.result.errors) = Len(failed)
         /\ \A k \in DOMAIN failed :
              Includes(run.result.errors[k],
                       "Failed to create issue \""
                       \o run.batch[failed[k] + 1].title \o "\": ")
         /\ Len(failed) > 0 => ~run.result.success

\* the first item of a batch failed and the second was created after it
C2_Witness ==
  \E r \in DOMAIN runs :
    /\ InBatch(runs[r]) /\ runs[r].pc = "returned"
    /\ Len(runs[r].batch) = 2
    /\ Succeeded(runs[r]) = {1}
    /\ \E x \in Range(tracker.issues) : x.title = runs[r].batch[2].title

\* C3: success is false exactly when errors is non-empty, and issues holds
\* an entry for every item created so far, in batch order, whatever failed
\* before or after it.
C3_SuccessIffNoErrors ==
  \A r \in DOMAIN runs :
    LET run == runs[r]
        created == SucceededSeq(run)
    IN InBatch(run) =>
         /\ run.result.success <=> Len(run.result.errors) = 0
         /\ Len(run.result.issues) = Len(created)
         /\ \A k \in DOMAIN created :
              /\ run.result.issues[k].title = run.batch[created[k] + 1].title
              /\ \E x \in Range(tracker.issues) :
                   /\ x.id = run.createdIssues[created[k]]
                   /\ x.identifier = run.result.issues[k].linearId
                   /\ x.url = run.result.issues[k].url

\* a batch of two: the first item was created, the second failed, and the
\* first is still reported
C3_Witness ==
  \E r \in DOMAIN runs :
    /\ InBatch(runs[r]) /\ runs[r].pc = "returned"
    /\ Len(runs[r].batch) = 2
    /\ Succeeded(runs[r]) = {0}
    /\ Len(runs[r].result.issues) = 1
    /\ ~runs[r].result.success

\* the tracked items the invocation r created
CreatedBy(r) == SelectSeq(tracker.issues, LAMBDA x : x.by = r)

\* processComment is past the collection of the comments and their filter
PastFilter(run) ==
  \/ run.pc \in {"labels", "parse", "create"}
  \/ run.pc \in {"returned", "done"} /\ Len(run.allComments) > 0
       /\ (build = "dist" => run.lookup # "none")

\* the ids the markers of the items of earlier invocations hold
RecoveredIds(r) ==
  UNION {ScanCommentIds(x.description) :
           x \in {y \in Range(tracker.issues) : y.by < r}}

\* C4: a second invocation on a pull request whose comments are those an
\* earlier invocation collected, the earlier one having created a tracked
\* item and the duplicate checks of both having succeeded, answers that
\* there is nothing new, calls neither parseIssues nor createIssue and
\* creates no tracked item.
C4_SecondRunCreatesNothing ==
  \A r1, r2 \in DOMAIN runs :
    (/\ r1 < r2
     /\ runs[r1].pc = "done"
     /\ runs[r1].lookup = "ok"
     /\ Len(CreatedBy(r1)) > 0
     /\ runs[r2].lookup = "ok"
     /\ runs[r2].allComments = runs[r1].allComments)
    => /\ runs[r2].pc \notin {"labels", "parse", "create"}
       /\ runs[r2].parseCalls = 0
       /\ Len(CreatedBy(r2)) = 0
       /\ runs[r2].pc = "returned" =>
            runs[r2].response \in
              {MsgAlreadyProcessed, MsgAllProcessed(Len(runs[r2].allComments))}

\* C5: in an invocation whose duplicate check succeeded, the comments merged
\* are the collected comments, in order, whose ids no marker of an item of
\* an earlier invocation holds, the text handed to parseIssues is their
\* merge, and no two items created by different invocations hold the marker
\* of the same comment.
C5_MergedAreTheNewComments ==
  /\ \A r \in DOMAIN runs :
       LET run == runs[r]
       IN (run.ctx.prNumber # 0 /\ run.lookup = "ok" /\ PastFilter(run)) =>
            \A recovered \in {RecoveredIds(r)} :
              /\ run.comments =
                   SelectSeq(run.allComments, LAMBDA c : c.id \notin recovered)
              /\ (build = "dist" /\ run.pc # "done") =>
                   run.processedIds = recovered
              /\ run.pc \in {"labels", "parse", "create"} =>
                   run.commentBody = MergedText(run.comments)
              /\ run.pc = "create" =>
                   run.commentsArg = IF build = "dist" THEN run.comments ELSE <<>>
  /\ \A x, y \in Range(tracker.issues) :
       (x.by < y.by /\ runs[y.by].lookup = "ok") =>
         ScanCommentIds(x.description) \cap ScanCommentIds(y.description) = {}

\* a second invocation found the comment of the first processed, merged
\* only the comment posted since, and created an item holding its marker
C5_Witness ==
  \E r \in DOMAIN runs :
    /\ build = "dist" /\ r > 1
    /\ runs[r].lookup = "ok"
    /\ runs[r].processedIds # {}
    /\ Len(runs[r].comments) > 0
    /\ Len(runs[r].comments) < Len(runs[r].allComments)
    /\ \E x \in Range(tracker.issues) :
         x.by = r /\ ScanCommentIds(x.description) = Ids(runs[r].comments)

\* C6: the duplicate check fails open: when the tracker query throws, the
\* check answers that nothing is processed, the invocation goes on, no
\* collected comment is filtered out, and it does not answer that the
\* comments are already processed.
C6_LookupFailsOpen ==
  \A r \in DOMAIN runs :
    LET run == runs[r]
    IN run.lookup = "failed" =>
         /\ ~run.alreadyProcessed
         /\ run.processedIds = {}
         /\ run.pc \in {"fetch", "labels", "parse", "create", "returned", "done"}
         /\ run.pc # "fetch" => run.comments = run.allComments
         /\ run.pc \in {"labels", "parse", "create"} =>
              run.commentBody = MergedText(run.allComments)
         /\ run.pc = "returned" =>
              /\ run.response # MsgAlreadyProcessed
              /\ run.response # MsgAllProcessed(Len(run.allComments))

\* the tracker holds the item of an earlier invocation, the query failed,
\* and the invocation created a second item from the same comment
C6_Witness ==
  \E r \in DOMAIN runs :
    /\ runs[r].lookup = "failed"
    /\ runs[r].pc = "returned"
    /\ runs[r].allComments = <<FirstComment>>
    /\ Len(CreatedBy(0)) = 1
    /\ Len(CreatedBy(r)) > 0

\* C7: no comment of a resolved review thread is in the list
\* fetchAllPRComments returns, however many threads the pull request has
\* and however many comments a thread has.
C7_ResolvedNeverCollected ==
  \A r \in DOMAIN runs :
    \A t \in DOMAIN reviewThreads :
      reviewThreads[t].isResolved =>
        \A c \in Range(reviewThreads[t].comments) :
          c.id \notin Ids(SelectSeq(runs[r].allComments,
                                   LAMBDA x : x.type = "review"))

\* fetchAllPRComments has returned its list
Fetched(run) == run.pc = "dedup" \/ run.response = MsgNoComments

\* C8: of the general comments listComments returns, fetchAllPRComments
\* returns none whose body contains "/create-issues", and returns every
\* other one whose body is not empty, in order and with its body unchanged.
C8_TriggerCommentsExcluded ==
  \A r \in DOMAIN runs :
    LET run == runs[r]
        got == SelectSeq(run.allComments, LAMBDA c : c.type = "issue")
        kept == SelectSeq(issueComments,
                          LAMBDA c : c.body # "" /\ ~Includes(c.body, TriggerPhrase))
    IN Fetched(run) =>
         /\ \A c \in Range(got) : ~Includes(c.body, TriggerPhrase)
         /\ Len(got) = Len(kept)
         /\ \A k \in DOMAIN kept :
              got[k].id = kept[k].id /\ got[k].body = kept[k].body

\* of two general comments the one that holds the phrase inside a sentence
\* is left out and the other is returned
C8_Witness ==
  \E r \in DOMAIN runs :
    /\ Fetched(runs[r])
    /\ Len(issueComments) = 2
    /\ issueComments[1].body = "please /create-issues now"
    /\ issueComments[2].body = "Fix bug A"
    /\ issueComments[2].id = 2
    /\ Ids(SelectSeq(runs[r].allComments, LAMBDA c : c.type = "issue")) = {2}

\* C9, as stated: parseIssues is never called on an empty text.
C9_NeverParsesEmptyText ==
  \A r \in DOMAIN runs :
    runs[r].parseCalls > 0 => runs[r].commentBody # ""

\* C9, amended: in an invocation on a pull request, when no comment is
\* left to merge (none collected, or all of them filtered out) processComment
\* returns that there is nothing to do and calls neither parseIssues nor
\* createIssue nor createIssueLabel; parseIssues is called only on the
\* non-empty merge of a non-empty list of comments.
C9_ShortCircuitOnPullRequest ==
  \A r \in DOMAIN runs :
    LET run == runs[r]
    IN run.ctx.prNumber # 0 =>
         /\ run.pc \in {"labels", "parse", "create"} => Len(run.comments) > 0
         /\ run.parseCalls > 0 =>
              /\ Len(run.comments) > 0
              /\ run.commentBody = MergedText(run.comments)
              /\ run.commentBody # ""
         /\ (run.pc = "returned" /\ Len(run.comments) = 0) =>
              /\ run.response \in
                   {MsgAlreadyProcessed, MsgNoComments,
                    MsgAllProcessed(Len(run.allComments)),
                    Failure("GitHub request failed")}
              /\ run.parseCalls = 0
              /\ run.client.createCalls = 0
              /\ run.client.createLabelCalls = 0
              /\ Len(CreatedBy(r)) = 0
         /\ (build = "dist" /\ run.lookup # "none" /\ Len(run.comments) = 0
               /\ run.pc # "done") =>
              /\ run.pc = "returned"
              /\ run.response = MsgAllProcessed(Len(run.allComments))

\* the only comment of the pull request is already processed: the
\* invocation returns without having called parseIssues
C9_Witness ==
  \E r \in DOMAIN runs :
    /\ runs[r].ctx.prNumber # 0
    /\ runs[r].lookup = "ok"
    /\ runs[r].allComments = <<FirstComment>>
    /\ runs[r].comments = <<>>
    /\ runs[r].pc = "returned"
    /\ runs[r].response = MsgAllProcessed(1)
    /\ runs[r].parseCalls = 0

\* the answer of the collaborator is not JSON, or an element of it fails
\* ParsedIssueSchema
Invalid(raw) ==
  \/ raw.kind = "notJson"
  \/ raw.kind = "array" /\ \E k \in DOMAIN raw.value : ~ParsedIssueSchema(raw.value[k])
  \/ raw.kind = "object" /\ ~ParsedIssueSchema(raw.value)

\* C10: when the answer of the collaborator is not JSON or an element of
\* it fails ParsedIssueSchema, parseIssues throws, no element is accepted,
\* processComment returns the failure, and the invocation calls neither
\* createIssue nor createIssueLabel and leaves no item in the tracker.
C10_ValidationFailureIsFatal ==
  \A r \in DOMAIN runs :
    LET run == runs[r]
    IN (run.parseCalls > 0 /\ Invalid(run.raw)) =>
         /\ run.parseThrew
         /\ run.batch = <<>>
         /\ run.pc = "returned"
         /\ Includes(run.response,
                     FailurePrefix \o "Failed to parse issues from AI response: ")
         /\ run.client.createCalls = 0
         /\ run.client.createLabelCalls = 0
         /\ Len(CreatedBy(r)) = 0

\* the collaborator answered a valid element followed by an invalid one,
\* and the invocation returned
C10_Witness ==
  \E r \in DOMAIN runs :
    /\ runs[r].parseCalls > 0
    /\ runs[r].raw = [kind |-> "array", value |-> <<ItemA, ItemBad>>]
    /\ runs[r].pc = "returned"
    /\ Len(runs[r].allComments) > 0

\* the one item of the batch has been attempted
Attempted(run) == InBatch(run) /\ Len(run.batch) = 1 /\ run.i = 1

\* C11: the priority text, compared without regard to case, is sent to the
\* tracker as urgent 0, high 1, medium 2, low 3, and every other text as 2;
\* what is sent is always a number, and never 4.
C11_PriorityMapping ==
  \A r \in DOMAIN runs :
    LET run == runs[r]
    IN (Attempted(run) /\ Has(run.batch[1], "priority")) =>
         \A x \in Range(tracker.issues) :
           LET text == run.batch[1].priority
           IN /\ x.priority.type = "number"
              /\ x.priority.ordinal # 4
              /\ x.priority.ordinal =
                   (IF text \in {"urgent", "URGENT"} THEN 0
                    ELSE IF text \in {"high", "High"} THEN 1
                    ELSE IF text \in {"low", "LOW"} THEN 3
                    ELSE 2)

\* C12: an item without a priority does not fail for that reason, and is
\* created with the ordinal 2.
C12_MissingPriorityIsMedium ==
  \A r \in DOMAIN runs :
    LET run == runs[r]
    IN (Attempted(run) /\ ~Has(run.batch[1], "priority")) =>
         /\ \A k \in DOMAIN run.result.errors :
              ~Includes(run.result.errors[k], "TypeError")
         /\ \A x \in Range(tracker.issues) : x.priority = Ordinal(2)

\* C13: the items of a batch are handed to the tracker in the order of the
\* batch, one at a time: a step that makes the tracker hold a new issue adds
\* exactly one, made from the item at the current index, and moves the index
\* to the next item; the index moves by one and never back; and the entries
\* of result.issues are those of increasing batch indices.
C13_BatchOrder ==
  [][\A r \in DOMAIN runs :
       InBatch(runs[r]) =>
         /\ runs'[r].batch = runs[r].batch
         /\ runs'[r].i \in {runs[r].i, runs[r].i + 1}
         /\ runs'[r].attempted # runs[r].attempted =>
              /\ runs'[r].attempted = Append(runs[r].attempted, runs[r].i)
              /\ runs'[r].i = runs[r].i + 1
         /\ tracker'.issues # tracker.issues =>
              /\ Len(tracker'.issues) = Len(tracker.issues) + 1
              /\ SubSeq(tracker'.issues, 1, Len(tracker.issues)) = tracker.issues
              /\ tracker'.issues[Len(tracker'.issues)].title
                   = runs[r].batch[runs[r].i + 1].title
              /\ runs'[r].attempted = Append(runs[r].attempted, runs[r].i)
         /\ runs'[r].client.createCalls \in
              {runs[r].client.createCalls, runs[r].client.createCalls + 1}
         /\ \A k \in DOMAIN runs'[r].result.issues :
              /\ k <= Len(SucceededSeq(runs'[r]))
              /\ runs'[r].result.issues[k].title
                   = runs[r].batch[SucceededSeq(runs'[r])[k] + 1].title
              /\ k > 1 => SucceededSeq(runs'[r])[k - 1] < SucceededSeq(runs'[r])[k]]_vars

\* a batch of two different items, both created: the tracker holds them in
\* the order of the batch
C13_Witness ==
  \E r \in DOMAIN runs :
    /\ InBatch(runs[r]) /\ runs[r].pc = "returned"
    /\ Len(runs[r].batch) = 2
    /\ runs[r].batch[1].title # runs[r].batch[2].title
    /\ Succeeded(runs[r]) = {0, 1}
    /\ Len(tracker.issues) = 2
    /\ tracker.issues[1].title = runs[r].batch[1].title
    /\ tracker.issues[2].title = runs[r].batch[2].title

\* the dependencies of the item at index idx that point to an earlier item
\* the tracker holds an issue for, in the order the item lists them
Resolvable(run, idx) ==
  IF Has(run.batch[idx + 1], "dependencies")
  THEN SelectSeq(run.batch[idx + 1].dependencies,
                 LAMBDA d : /\ d >= 0 /\ d < idx
                            /\ \E k \in DOMAIN run.result.issues :
                                 SucceededSeq(run)[k] = d)
  ELSE <<>>

\* the errors createIssue raises
CreateErrors ==
  {"TypeError: Cannot read properties of undefined (reading 'toLowerCase')",
   "Error: issueLabels failed", "Error: API Error",
   "Error: Failed to create Linear issue",
   "Error: Failed to fetch the created issue"}

\* C14: while the item at index i is processed the keys of createdIssues
\* are the indices below i whose createIssue returned, each mapped to the id
\* of the tracker issue made from that item; a failed item is not a key; the
\* dependencies that resolve are those pointing to an earlier created item,
\* and the others (self, forward, out of range, failed) raise no error.
C14_CreatedIssuesMap ==
  \A r \in DOMAIN runs :
    LET run == runs[r]
    IN InBatch(run) =>
         /\ DOMAIN run.createdIssues \subseteq 0..(run.i - 1)
         /\ Cardinality(DOMAIN run.createdIssues) = Len(run.result.issues)
         /\ run.i - Cardinality(DOMAIN run.createdIssues) = Len(run.result.errors)
         /\ \A j \in DOMAIN run.createdIssues :
              \E x \in Range(tracker.issues) :
                /\ x.id = run.createdIssues[j]
                /\ x.title = run.batch[j + 1].title
         /\ \A k \in DOMAIN run.depIds :
              run.depIds[k] =
                IF (k - 1) \in DOMAIN run.createdIssues
                THEN [n \in DOMAIN Resolvable(run, k - 1) |->
                        run.createdIssues[Resolvable(run, k - 1)[n]]]
                ELSE <<>>
         /\ \A k \in DOMAIN run.result.errors :
              \E e \in CreateErrors :
                run.result.errors[k] =
                  "Failed to create issue \"" \o run.batch[FailedSeq(run)[k] + 1].title
                  \o "\": " \o e

\* the first item failed; the second, which depends on the first, on itself
\* and on an index out of range, was created with no dependency resolved
C14_Witness ==
  \E r \in DOMAIN runs :
    /\ InBatch(runs[r]) /\ runs[r].pc = "returned"
    /\ runs[r].batch = <<Item1, Item2>>
    /\ DOMAIN runs[r].createdIssues = {1}
    /\ runs[r].depIds[2] = <<>>
    /\ ~runs[r].result.success
    /\ Len(runs[r].result.issues) = 1
    /\ Len(runs[r].result.errors) = 1

\* C15: the description the tracker holds for an item contains the
\* "depends on" note exactly when the item has a dependency that resolves.
C15_DependencyNotePersisted ==
  \A r \in DOMAIN runs :
    LET run == runs[r]
    IN InBatch(run) =>
         \A j \in DOMAIN run.createdIssues :
           \A x \in Range(tracker.issues) :
             x.id = run.createdIssues[j] =>
               (Includes(x.description, "depends on")
                  <=> Len(Resolvable(run, j)) > 0)

\* the number of places of s where the marker of comment id stands
MarkerCount(s, id) ==
  LET marker == "<!-- gitlin:comment:" \o ToString(id) \o " -->"
  IN Cardinality({k \in 1..(Len(s) - Len(marker) + 1) :
                    SubSeq(s, k, k + Len(marker) - 1) = marker})

\* C16: the description the tracker holds for an item created by an
\* invocation on a pull request has one marker for every comment the
\* invocation merged, and a marker for no other comment.
C16_MarkersOfMergedComments ==
  \A r \in DOMAIN runs :
    runs[r].ctx.prNumber # 0 =>
      \A x \in Range(tracker.issues) :
        x.by = r =>
          /\ ScanCommentIds(x.description) = Ids(runs[r].comments)
          /\ \A id \in Ids(runs[r].comments) : MarkerCount(x.description, id) = 1

\* C17: the description the tracker holds for an item created by an
\* invocation on a pull request contains the annotation
\* gitlin:pr:<owner>/<repo>/pull/<number>, so that isPRProcessed is true of
\* the tracker once it holds such an item.
C17_ThreadAnnotation ==
  \A r \in DOMAIN runs :
    runs[r].ctx.prNumber # 0 =>
      \A x \in Range(tracker.issues) :
        x.by = r =>
          /\ Includes(x.description,
                      "gitlin:pr:" \o Owner \o "/" \o Repo \o "/pull/"
                      \o ToString(runs[r].ctx.prNumber))
          /\ isPRProcessed(tracker, runs[r].ctx.prNumber)

\* C18: the markers round-trip.  When createIssue has been called with a
\* pull request URL and the comments S and the tracker holds the item, the
\* substring query on the URL returns the item, the scan of its stored
\* description yields exactly the ids of S, and so does
\* getProcessedCommentIds on the tracker.
C18_MarkerRoundTrip ==
  \A r \in DOMAIN runs :
    (Attempted(runs[r]) /\ runs[r].prUrl # "") =>
      \A x \in Range(tracker.issues) :
        x.by = r =>
          /\ x \in Range(findIssuesByPRUrl(tracker, runs[r].prUrl))
          /\ ScanCommentIds(x.description) = Ids(runs[r].commentsArg)
          /\ getProcessedCommentIds(tracker, 1) = Ids(runs[r].commentsArg)

\* an item with an effort is stored, created with two comments whose ids are
\* a prefix of one another, and both ids are read back
C18_Witness ==
  \E r \in DOMAIN runs :
    /\ Attempted(runs[r])
    /\ runs[r].prUrl = PrUrl(1)
    /\ Ids(runs[r].commentsArg) = {12, 120}
    /\ Has(runs[r].batch[1], "effort")
    /\ \E x \in Range(tracker.issues) :
         x.by = r /\ ScanCommentIds(x.description) = {12, 120}

\* the names createIssue resolves for the item: its labels and the
\* provenance label
Requested(run) ==
  (IF Has(run.batch[1], "labels") THEN Range(run.batch[1].labels) ELSE {})
  \cup {AutoTag(run.client.config)}

\* the ids of the labels of the tracker that have one of the names, in any
\* spelling
IdsOfNames(names) ==
  {l.id : l \in {l \in Range(tracker.labels) :
                   \E n \in names : Lower(l.name) = Lower(n)}}

\* C19: the label-id list sent with an item holds no id twice, and holds
\* for each requested name (and the provenance label) the one id of the
\* tracker's label of that name, whatever the case of the letters and
\* however often the name is requested.
C19_LabelIdsUnique ==
  \A r \in DOMAIN runs :
    Attempted(runs[r]) =>
      \A x \in Range(tracker.issues) :
        x.by = r =>
          /\ \A j, k \in DOMAIN x.labelIds : x.labelIds[j] = x.labelIds[k] => j = k
          /\ Range(x.labelIds) = IdsOfNames(Requested(runs[r]))
          /\ \A n \in Requested(runs[r]) : Cardinality(IdsOfNames({n})) <= 1

\* 'security' requested twice, the tracker having it: its id once, and the id
\* of the provenance label just created
C19_Witness ==
  \E r \in DOMAIN runs :
    /\ Attempted(runs[r])
    /\ Has(runs[r].batch[1], "labels")
    /\ runs[r].batch[1].labels = <<"security", "security">>
    /\ \E x \in Range(tracker.issues) :
         x.by = r /\ x.labelIds = <<"label-2", "label-3">>

\* C20: within one run of createIssues the tracker's createIssueLabel is
\* called at most once for the provenance label, and once it has been
\* called the cache of the client holds the label's id, which the later
\* items of the batch reuse.
C20_ProvenanceLabelCreatedOnce ==
  \A r \in DOMAIN runs :
    InBatch(runs[r]) =>
      /\ runs[r].client.createLabelCalls <= 1
      /\ runs[r].client.createLabelCalls >= 1 =>
           Lower(AutoTag(runs[r].client.config)) \in DOMAIN runs[r].client.labelCache

\* C21: every item the tracker holds that a run of createIssues created has,
\* among its labelIds, the id of the tracker's label named as the provenance
\* label of that run.
C21_ProvenanceLabelApplied ==
  \A r \in DOMAIN runs :
    InBatch(runs[r]) =>
      \A x \in Range(tracker.issues) :
        x.by = r =>
          \E l \in Range(tracker.labels) :
            /\ l.name = AutoTag(runs[r].client.config)
            /\ l.id \in Range(x.labelIds)

\* the requested names of the item that the tracker had no label for before
\* the call and that are not the provenance label
Unresolved(run) ==
  {n \in Requested(run) :
     /\ n # AutoTag(run.client.config)
     /\ ~\E l \in Range(ItemLabels) : Lower(l.name) = Lower(n)}

\* how often the provenance label, spelled as configured, is among the names
\* createIssue resolves for the item
AutoTagTurns(run) ==
  1 + (IF Has(run.batch[1], "labels")
       THEN Cardinality({k \in DOMAIN run.batch[1].labels :
                           run.batch[1].labels[k] = AutoTag(run.client.config)})
       ELSE 0)

\* C22: a requested name that the cache lacks and that is not the provenance
\* label is dropped: createIssueLabel is called for the provenance label
\* only, the tracker gets no label of that name, the name contributes no id
\* to the item, and the item fails only for the reasons any item fails for.
C22_UnresolvedLabelDropped ==
  \A r \in DOMAIN runs :
    (Attempted(runs[r]) /\ Unresolved(runs[r]) # {}) =>
      /\ runs[r].client.createLabelCalls <= AutoTagTurns(runs[r])
      /\ \A l \in Range(tracker.labels) :
           l \in Range(ItemLabels) \/ l.name = AutoTag(runs[r].client.config)
      /\ \A x \in Range(tracker.issues) :
           x.by = r =>
             Range(x.labelIds) = IdsOfNames(Requested(runs[r]) \ Unresolved(runs[r]))
      /\ \A k \in DOMAIN runs[r].result.errors :
           \E e \in CreateErrors :
             runs[r].result.errors[k] =
               "Failed to create issue \"" \o runs[r].batch[1].title \o "\": " \o e

\* the item asking for 'missing' and 'security' is created with the id of
\* 'security' and that of the provenance label, one label having been created
C22_Witness ==
  \E r \in DOMAIN runs :
    /\ Attempted(runs[r])
    /\ Unresolved(runs[r]) = {"missing"}
    /\ runs[r].client.createLabelCalls = 1
    /\ Len(runs[r].result.issues) = 1
    /\ \E x \in Range(tracker.issues) :
         x.by = r /\ x.labelIds = <<"label-2", "label-3">>

\* the hint of the item asks for nobody: absent, empty, or 'unassigned' in
\* any case of the letters
NoAssigneeHint(item) ==
  \/ ~Has(item, "assignee")
  \/ item.assignee = ""
  \/ Lower(item.assignee) = "unassigned"

\* C23: for an item whose assignee hint is absent, empty or
\* case-insensitively 'unassigned', the user directory is not fetched and
\* the item is sent with no assignee.
C23_NoAssigneeNoLookup ==
  \A r \in DOMAIN runs :
    (Attempted(runs[r]) /\ NoAssigneeHint(runs[r].batch[1])) =>
      /\ runs[r].client.usersCalls = 0
      /\ \A x \in Range(tracker.issues) : x.by = r => x.assigneeId = NoId

\* the item hinting 'UNASSIGNED' is stored, with no assignee, the directory
\* not having been asked
C23_Witness ==
  \E r \in DOMAIN runs :
    /\ Attempted(runs[r])
    /\ Has(runs[r].batch[1], "assignee")
    /\ runs[r].batch[1].assignee = "UNASSIGNED"
    /\ runs[r].client.usersCalls = 0
    /\ Len(runs[r].result.issues) = 1
    /\ \E x \in Range(tracker.issues) : x.by = r /\ x.assigneeId = NoId

\* the user matches the hint: email, name or displayName equal it, letter
\* case apart
Matches(u, hint) ==
  \/ Lower(u.email) = Lower(hint)
  \/ Lower(u.name) = Lower(hint)
  \/ Lower(u.displayName) = Lower(hint)

LookupFailedWarning == "Failed to look up assignee: Error: users failed"

\* C24: for any other hint the directory is fetched once; unless that
\* fails, the item is sent with the id of the first user of the directory
\* that matches the hint, and with no assignee if none matches; if it fails
\* the item is sent with no assignee; in neither case does the item fail
\* for it.
C24_AssigneeResolution ==
  \A r \in DOMAIN runs :
    (Attempted(runs[r]) /\ ~NoAssigneeHint(runs[r].batch[1])) =>
      LET hint == runs[r].batch[1].assignee
          hits == {k \in DOMAIN Users : Matches(Users[k], hint)}
          failed == LookupFailedWarning \in Range(runs[r].warnings)
      IN /\ runs[r].client.createCalls = 1 => runs[r].client.usersCalls = 1
         /\ \A x \in Range(tracker.issues) :
              x.by = r =>
                x.assigneeId =
                  IF failed \/ hits = {} THEN NoId
                  ELSE Users[CHOOSE k \in hits : \A j \in hits : k <= j].id
         /\ \A k \in DOMAIN runs[r].result.errors :
              \E e \in CreateErrors :
                runs[r].result.errors[k] =
                  "Failed to create issue \"" \o runs[r].batch[1].title \o "\": " \o e

\* 'TEST' is the displayName of the first user and the name of the second:
\* the item is stored with the first as assignee
C24_Witness ==
  \E r \in DOMAIN runs :
    /\ Attempted(runs[r])
    /\ Has(runs[r].batch[1], "assignee")
    /\ runs[r].batch[1].assignee = "TEST"
    /\ Len(runs[r].result.issues) = 1
    /\ \E x \in Range(tracker.issues) : x.by = r /\ x.assigneeId = "user-1"

\* the invocation but for its position and the reactions it has left
Rest(run) == [run EXCEPT !.pc = "", !.reactions = <<>>, !.exit = ""]

\* the step of invocation r leaves everything alone but the position of r,
\* and adds the reaction or does not
OnlyReacts(r, reaction) ==
  /\ runs'[r].reactions \in {runs[r].reactions, Append(runs[r].reactions, reaction)}
  /\ UNCHANGED <<build, issueComments, reviewThreads, tracker>>
  /\ \A q \in DOMAIN runs : q # r => runs'[q] = runs[q]

\* C25: whether or not the call behind addReaction succeeds, the step of
\* main that adds a reaction goes on to what follows it in main -- 'eyes' to
\* processComment, 'rocket' to the posting of the reply, 'confused' to the
\* exit the error already decided -- and changes nothing but the reactions
\* of the comment.
C25_ReactionsBestEffort ==
  [][\A r \in DOMAIN runs :
       /\ runs[r].pc = "eyes" =>
            /\ runs'[r].pc = Entry(runs[r].ctx)
            /\ Rest(runs'[r]) = Rest(runs[r])
            /\ OnlyReacts(r, "eyes")
       /\ (runs[r].pc = "returned" /\ runs[r].entry = "main"
           /\ runs[r].ctx.commentId # 0) =>
            /\ runs'[r].pc = "post"
            /\ Rest(runs'[r]) = Rest(runs[r])
            /\ OnlyReacts(r, "rocket")
       /\ runs[r].pc = "confused" =>
            /\ runs'[r] = Exited([runs[r] EXCEPT !.reactions = runs'[r].reactions],
                                 "failed")
            /\ OnlyReacts(r, "confused")]_vars

\* the 'eyes' reaction failed, and the invocation has created an item, added
\* 'rocket', posted its reply and exited with 0
C25_Witness ==
  \E r \in DOMAIN runs :
    /\ runs[r].ctx.commentId # 0
    /\ runs[r].ctx.prNumber # 0
    /\ runs[r].pc = "done"
    /\ runs[r].exit = "ok"
    /\ runs[r].reactions = <<"rocket">>
    /\ Len(issueComments) = Len(MainComments) + 1
    /\ \E x \in Range(tracker.issues) : x.by = r

\* processComment ended in its catch branch, or createIssues reported errors
ProcessingFailed(run) ==
  \/ /\ Len(run.response) >= Len(FailurePrefix)
     /\ SubSeq(run.response, 1, Len(FailurePrefix)) = FailurePrefix
  \/ Len(run.result.errors) > 0

\* C26: the comment of an invocation whose processing failed never gets
\* 'rocket' ('rocket' is only added when processing succeeded).
C26_RocketOnlyOnSuccess ==
  \A r \in DOMAIN runs :
    (runs[r].pc = "post" /\ "rocket" \in Range(runs[r].reactions)) =>
      ~ProcessingFailed(runs[r])

\* the items of the tracker that invocation r created
ItemsBy(r) == {k \in DOMAIN tracker.issues : tracker.issues[k].by = r}

\* C27: nothing keeps two invocations on one pull request apart.  Whenever
\* two of them have both merged the comment with id c -- each has passed its
\* duplicate check with c unprocessed -- every item either of them creates
\* (dist/index.js) carries the marker of c, so that two creating makes two
\* items with the marker of the same comment; the witness is the
\* interleaving in which that happens with both lookups having succeeded.
C27_OverlappingRunsDuplicate ==
  \A r1 \in DOMAIN runs, r2 \in DOMAIN runs :
    r1 # r2 =>
      \A c \in Ids(runs[r1].comments) \cap Ids(runs[r2].comments) :
        \A k \in ItemsBy(r1) \cup ItemsBy(r2) :
          /\ Includes(tracker.issues[k].description, PrUrl(1))
          /\ build = "dist" => c \in ScanCommentIds(tracker.issues[k].description)

\* two invocations (dist/index.js) whose lookups both succeeded, both past
\* the duplicate check with comment 1 unprocessed, have each created an item
\* with the marker of comment 1
C27_Witness ==
  \E r1 \in DOMAIN runs, r2 \in DOMAIN runs :
    /\ r1 # r2
    /\ build = "dist"
    /\ runs[r1].lookup = "ok" /\ runs[r2].lookup = "ok"
    /\ 1 \in Ids(runs[r1].comments) \cap Ids(runs[r2].comments)
    /\ \E k1 \in ItemsBy(r1), k2 \in ItemsBy(r2) :
         /\ 1 \in ScanCommentIds(tracker.issues[k1].description)
         /\ 1 \in ScanCommentIds(tracker.issues[k2].description)
         /\ tracker.issues[k1].title = tracker.issues[k2].title

\* the candidates safeParse has been applied to
Validated(run) == run.entry = "safeParse" /\ run.pc = "returned"

\* the key holds a non-empty string
NonEmptyString(c, key) ==
  /\ Has(c, key) /\ c[key].type = "string" /\ Len(c[key].val) >= 1

\* the key holds one of the words
OneOf(c, key, words) ==
  /\ Has(c, key) /\ c[key].type = "string" /\ c[key].val \in words

\* what the claim requires of a candidate
C28_Required(c) ==
  /\ NonEmptyString(c, "title")
  /\ NonEmptyString(c, "description")
  /\ OneOf(c, "priority", {"urgent", "high", "medium", "low"})
  /\ Has(c, "effort") => OneOf(c, "effort", {"small", "medium", "large"})

\* C28 as stated: a candidate is accepted iff title and description are
\* non-empty strings, priority is one of the four words and effort, when
\* present, one of the three; labels, assignee and dependencies may be
\* absent or present.
C28_SchemaAcceptsIff ==
  \A r \in DOMAIN runs :
    Validated(runs[r]) =>
      (runs[r].response = "success" <=> C28_Required(runs[r].raw.value))

\* C28 amended: ... and labels, when present, is an array of strings,
\* assignee, when present, a string, and dependencies, when present, an
\* array of numbers; keys the schema does not name do not matter.
C28_SchemaAcceptsIffTyped ==
  \A r \in DOMAIN runs :
    Validated(runs[r]) =>
      LET c == runs[r].raw.value
      IN runs[r].response = "success" <=>
           /\ C28_Required(c)
           /\ Has(c, "labels") =>
                /\ c.labels.type = "array"
                /\ \A k \in DOMAIN c.labels.val : c.labels.val[k].type = "string"
           /\ Has(c, "assignee") => c.assignee.type = "string"
           /\ Has(c, "dependencies") =>
                /\ c.dependencies.type = "array"
                /\ \A k \in DOMAIN c.dependencies.val :
                     c.dependencies.val[k].type = "number"

\* the complete item of the tests, with one more key, has been accepted
C28_Witness ==
  \E r \in DOMAIN runs :
    /\ Validated(runs[r])
    /\ runs[r].response = "success"
    /\ DOMAIN runs[r].raw.value =
         {"title", "description", "priority", "effort", "labels", "assignee",
          "dependencies", "extra"}
    /\ runs[r].raw.value.priority = Str("high")
    /\ runs[r].raw.value.effort = Str("medium")

\* C29: within a run of createIssues no item is attempted twice: the
\* indices attempted are distinct and at most as many as the batch has
\* items, the tracker's createIssue has been called at most once per
\* attempted item, the tracker holds at most one issue per attempted item,
\* and an index that failed is not attempted again.
C29_NoRetry ==
  \A r \in DOMAIN runs :
    InBatch(runs[r]) =>
      LET run == runs[r]
      IN /\ \A j, k \in DOMAIN run.attempted :
              run.attempted[j] = run.attempted[k] => j = k
         /\ Len(run.attempted) <= Len(run.batch)
         /\ run.client.createCalls <= Len(run.attempted)
         /\ Cardinality(ItemsBy(r)) <= run.client.createCalls
         /\ Len(run.result.errors) + Len(run.result.issues) = Len(run.attempted)
         /\ \A k \in DOMAIN run.attempted : run.attempted[k] < run.i

\* a batch of two has been walked: the first item failed at the tracker, the
\* second was created, the tracker was called twice in all
C29_Witness ==
  \E r \in DOMAIN runs :
    /\ InBatch(runs[r]) /\ runs[r].pc = "returned"
    /\ Len(runs[r].batch) = 2
    /\ runs[r].attempted = <<0, 1>>
    /\ runs[r].client.createCalls = 2
    /\ Len(runs[r].result.errors) = 1
    /\ Len(runs[r].result.issues) = 1
    /\ Cardinality(ItemsBy(r)) = 1

\* C30: within a run the label cache is filled by one listing, on first
\* use; once it is filled the listing is not requested again, no entry is
\* removed or changed, and the only entry added is that of the provenance
\* label, with the id of the label just created in the tracker.
C30_LabelCacheCoherent ==
  [][\A r \in DOMAIN runs :
       LET old == runs[r].client
           new == runs'[r].client
           tag == Lower(AutoTag(old.config))
       IN runs'[r].pc # "done" =>
            /\ (~old.hasLabelCache /\ new.hasLabelCache) =>
                 /\ new.listLabelCalls = old.listLabelCalls + 1
                 /\ \A l \in Range(tracker.labels) :
                      /\ Lower(l.name) \in DOMAIN new.labelCache
                      /\ new.labelCache[Lower(l.name)] = l.id
            /\ old.hasLabelCache =>
                 /\ new.hasLabelCache
                 /\ new.listLabelCalls = old.listLabelCalls
                 /\ \A k \in DOMAIN old.labelCache :
                      k \in DOMAIN new.labelCache /\ new.labelCache[k] = old.labelCache[k]
            /\ \A k \in DOMAIN new.labelCache :
                 (k \notin DOMAIN old.labelCache
                  /\ ~\E l \in Range(tracker.labels) : Lower(l.name) = k) =>
                   /\ k = tag
                   /\ new.createLabelCalls > old.createLabelCalls
                   /\ \E l \in Range(tracker'.labels) :
                        /\ l \notin Range(tracker.labels)
                        /\ l.name = AutoTag(old.config)
                        /\ l.id = new.labelCache[k]]_vars

\* two items have been attempted on one listing; the cache holds the label
\* the tracker had and the provenance label created with the first item
C30_Witness ==
  \E r \in DOMAIN runs :
    /\ InBatch(runs[r])
    /\ Len(runs[r].attempted) = 2
    /\ Len(runs[r].result.issues) = 2
    /\ runs[r].client.listLabelCalls = 1
    /\ runs[r].client.createLabelCalls = 1
    /\ runs[r].client.labelCache = ("bug" :> "label-1") @@ ("gitlin-created" :> "label-2")

\* the batch of the invocation created some items and failed on others
PartlyFailed(run) ==
  Len(run.result.issues) > 0 /\ Len(run.result.errors) > 0

\* C31: after an invocation on a pull request in which some creations failed
\* while at least one succeeded, a later invocation on the same unchanged
\* thread, the duplicate checks of both having succeeded, merges again the
\* comments the earlier one merged and hands them to parseIssues: it does
\* not answer that everything is already processed.
C31_RetriggerRefeedsFailedWork ==
  \A r1, r2 \in DOMAIN runs :
    (/\ r1 < r2
     /\ runs[r1].pc = "done"
     /\ runs[r1].lookup = "ok"
     /\ PartlyFailed(runs[r1])
     /\ runs[r2].lookup = "ok"
     /\ runs[r2].allComments = runs[r1].allComments
     /\ PastFilter(runs[r2]))
    => /\ Ids(runs[r1].comments) \subseteq Ids(runs[r2].comments)
       /\ runs[r2].pc = "returned" =>
            runs[r2].response # MsgAllProcessed(Len(runs[r2].allComments))

\* parseIssues is about to be called, or has been called, with run.commentBody
HandedToExtraction(run) == run.pc = "parse" \/ run.parseCalls > 0

\* C32: the text handed to parseIssues never contains the trigger phrase:
\* no merged comment of either channel contains it, and on a pull request
\* the text is the merge of the collected comments, never the body of the
\* triggering comment.
C32_NoTriggerInExtractionText ==
  \A r \in DOMAIN runs :
    HandedToExtraction(runs[r]) =>
      /\ ~Includes(runs[r].commentBody, TriggerPhrase)
      /\ \A c \in Range(runs[r].comments) : ~Includes(c.body, TriggerPhrase)

\* one of the requests of fetchAllPRComments failed, or the listing of the
\* labels before extraction failed, or parseIssues threw
PreCreationError(run) ==
  \/ run.fetchFailed # ""
  \/ run.client.listLabelCalls > 0 /\ ~run.client.hasLabelCache
  \/ run.parseThrew

\* C33: when listComments, listReviewComments, the resolution query, the
\* listing of the labels before extraction or parseIssues fails, processComment
\* returns the failure text of that error, createIssue has not been called
\* and the run has created no tracked item.
C33_FatalBeforeCreation ==
  \A r \in DOMAIN runs :
    LET run == runs[r]
    IN (run.entry = "main" /\ PreCreationError(run)) =>
         /\ run.pc \in {"returned", "post", "confused"}
         /\ run.response =
              (IF run.fetchFailed # "" THEN Failure("GitHub request failed")
               ELSE IF run.parseThrew THEN Failure(parseIssues(run.raw).error)
               ELSE Failure("issueLabels failed"))
         /\ run.attempted = <<>>
         /\ run.client.createCalls = 0
         /\ Len(CreatedBy(r)) = 0

\* the resolution query failed after both listings had succeeded: the run
\* has returned the failure, with no comment collected and nothing created
C33_Witness ==
  \E r \in DOMAIN runs :
    /\ runs[r].fetchFailed = "graphql"
    /\ runs[r].pc = "returned"
    /\ runs[r].response = Failure("GitHub request failed")
    /\ runs[r].parseCalls = 0
    /\ runs[r].client.createCalls = 0
    /\ Len(issueComments) > 0

\* C34: parseIssues accepts only an answer that is an array of valid items:
\* an answer that is a JSON value of another shape (a single item object)
\* makes it throw and gives no batch, and so does an array with an invalid
\* element; the batch handed to createIssues is the array answered.
C34_OnlyArraysAccepted ==
  \A r \in DOMAIN runs :
    LET run == runs[r]
    IN run.parseCalls > 0 =>
         /\ run.raw.kind = "object" => (run.parseThrew /\ run.batch = <<>>)
         /\ (run.raw.kind = "array" /\ Invalid(run.raw)) =>
              (run.parseThrew /\ run.batch = <<>>)
         /\ run.batch # <<>> => (run.raw.kind = "array" /\ run.batch = run.raw.value)

\* the ids of the comments of one channel are distinct
UniqueWithinChannels ==
  /\ \A j, k \in DOMAIN issueComments :
       j # k => issueComments[j].id # issueComments[k].id
  /\ \A j, k \in DOMAIN AllReviewComments :
       j # k => AllReviewComments[j].id # AllReviewComments[k].id

\* C35: the ids of the comments of each channel being distinct, the list
\* fetchAllPRComments returns holds no two entries with the same id.
C35_CollectedIdsUnique ==
  \A r \in DOMAIN runs :
    (Fetched(runs[r]) /\ UniqueWithinChannels) =>
      \A j, k \in DOMAIN runs[r].allComments :
        j # k => runs[r].allComments[j].id # runs[r].allComments[k].id

\* C36: when createIssues has returned, the tracked items the call persisted
\* are as many as the entries of result.issues, every one of them is
\* reported there, and there are as many errors as items not persisted.
C36_PersistedAreReported ==
  \A r \in DOMAIN runs :
    (InBatch(runs[r]) /\ runs[r].pc = "returned") =>
      /\ Cardinality(ItemsBy(r)) = Len(runs[r].result.issues)
      /\ \A x \in ItemsBy(r) :
           \E k \in DOMAIN runs[r].result.issues :
             runs[r].result.issues[k].linearId = tracker.issues[x].identifier
      /\ Len(runs[r].result.errors) = Len(runs[r].batch) - Cardinality(ItemsBy(r))

\* the tracked item was created for pull request n: its description holds
\* the line of the pull request createIssue writes
ForPr(issue, n) == Includes(issue.description, "**Related PR:** " \o PrUrl(n) \o "\n")

\* C37: the ids the duplicate lookup of an invocation on pull request n
\* recovers are ids held by the markers of tracked items created for pull
\* request n, and the invocation answers that the pull request or its
\* comments are already processed only when such an item exists.
C37_LookupIsolatedPerPr ==
  \A r \in DOMAIN runs :
    LET run == runs[r]
        own == {x \in Range(tracker.issues) : ForPr(x, run.ctx.prNumber)}
    IN (run.ctx.prNumber # 0 /\ run.lookup = "ok" /\ run.pc # "done") =>
         /\ run.processedIds \subseteq
              UNION {ScanCommentIds(x.description) : x \in own}
         /\ run.alreadyProcessed => own # {}
         /\ (run.pc = "returned"
             /\ run.response \in {MsgAlreadyProcessed,
                                  MsgAllProcessed(Len(run.allComments))}) =>
              own # {}

\* an error was raised while invocation r was inside processComment: in
\* the duplicate lookup, the collection, the label listing, the extraction
\* or the creation of an item
RaisedInside(run) ==
  \/ run.lookup = "failed"
  \/ PreCreationError(run)
  \/ Len(run.result.errors) > 0

====
